---- MODULE Spec2Model ----
(***************************************************************************)
(* Tick engine of the tower defense: grid world, actor registry, A*        *)
(* pathfinding, actor templates, phase resolvers and the main loop.        *)
(*                                                                         *)
(* Lists (common/list.ts) are sequences; the empty list and `undefined`    *)
(* are the same value there (nil = undefined), so an absent proposal and   *)
(* an empty attack/heal list are both <<>>.  An optional actor (move and   *)
(* spawn proposals, lookups) is a sequence of length 0 or 1.               *)
(***************************************************************************)
EXTENDS Integers, Sequences, FiniteSets, TLC

VARIABLES
    world,      \* the World of main(): [graph, size]
    actors,     \* the registry (List<Actor>) held by main() / given to a resolver
    id_value,   \* the module-level id counter of actors.ts
    cursor,     \* main(): number of phases the fold of the current tick has still to apply
    tick,       \* main(): number of ticks completed
    lastPhase,  \* name of the phase resolved by the last step ("none" initially)
    phaseIn,    \* registry given to the last resolved phase
    proposals,  \* proposal list given to the last resolved phase
    usedIds,    \* every id that was in the registry before the last phase ran
    winner,     \* result of the last call of gameIsOver ("UNSET" before the first)
    call,       \* the last call of a function made on its own: its name and arguments
    result      \* the value that call returned

vars == <<world, actors, id_value, cursor, tick, lastPhase, phaseIn, proposals, usedIds, winner,
          call, result>>

\* no function has been called on its own yet
NoCall == [fn |-> "none"]

-----------------------------------------------------------------------------
(* common/list.ts *)

\* listFoldR(f, init, l) = f(listFoldR(f, init, tail(l)), head(l)): the elements
\* are consumed from the last to the first.  The same right fold is computed
\* here by halves (fold the right half, then the left half onto its result),
\* which keeps TLC's evaluation stack logarithmic in the length of the list;
\* the accumulator is bound to its value (acc \in {..}) before f receives it,
\* as a call by value does.
RECURSIVE listFoldR(_, _, _)
listFoldR(f(_, _), init, l) ==
    IF l = <<>> THEN init
    ELSE IF Len(l) = 1 THEN CHOOSE r \in {f(acc, l[1]) : acc \in {init}} : TRUE
    ELSE LET m == Len(l) \div 2
         IN  CHOOSE r \in {listFoldR(f, acc, SubSeq(l, 1, m)) :
                              acc \in {listFoldR(f, init, SubSeq(l, m + 1, Len(l)))}} : TRUE

\* listMap(f, l) = cons(f(head(l)), listMap(f, tail(l)))
listMap(f(_), l) == [i \in 1..Len(l) |-> f(l[i])]

appendList(l, elt) == l \o <<elt>>

concatList(l1, l2) == l1 \o l2

cons(elt, l) == <<elt>> \o l

\* randomList: Math.floor(Math.random() * length) is any index of the list
randomList(l) == IF l = <<>> THEN {<<>>} ELSE {<<l[i]>> : i \in 1..Len(l)}

-----------------------------------------------------------------------------
(* common/position.ts *)

createPosition(x, y) == [x |-> x, y |-> y]

translatePosition(p, dx, dy) == createPosition(p.x + dx, p.y + dy)

positionEquals(p1, p2) == p1.x = p2.x /\ p1.y = p2.y

\* positionDistance is Math.sqrt of this integer; the model keeps the square
positionDistance2(p1, p2) == (p1.x - p2.x) * (p1.x - p2.x) + (p1.y - p2.y) * (p1.y - p2.y)

\* sqrt(a) < sqrt(b) + k, for naturals a, b and an integer k, decided exactly
SqrtLess(a, b, k) ==
    IF k >= 0
    THEN LET d == a - b - k * k
         IN  d < 0 \/ d * d < 4 * k * k * b
    ELSE LET e == b - a - k * k
         IN  e > 0 /\ 4 * k * k * a < e * e

-----------------------------------------------------------------------------
(* common/vertex.ts, common/edge.ts, world/world.ts *)

createVertex(pos, adj) == [pos |-> pos, adj |-> adj]

createEdge(w, v) == [weight |-> w, vertex |-> v]

addEdge(vertex, edge) == [vertex EXCEPT !.adj = appendList(vertex.adj, edge)]

VertexNotFound == [error |-> "Can't find vertex"]

\* index of the first vertex of the list at pos, 0 if none (the walk along
\* the tails that both lookups make; positionEquals of two positions is
\* their equality)
firstVertexAt(vertexes, pos) ==
    LET at == {i \in 1..Len(vertexes) : vertexes[i].pos = pos}
    IN  IF at = {} THEN 0 ELSE CHOOSE i \in at : \A j \in at : i <= j

\* vertex.ts: throws when no vertex has the position
getVertexByPos(vertexes, pos) ==
    LET i == firstVertexAt(vertexes, pos)
    IN  IF i = 0 THEN VertexNotFound ELSE vertexes[i]

\* world.ts has its own lookup, which returns a vertex at (-1,-1) instead
worldGetVertexByPos(vertexes, pos) ==
    LET i == firstVertexAt(vertexes, pos)
    IN  IF i = 0 THEN createVertex(createPosition(-1, -1), <<>>) ELSE vertexes[i]

\* createVertexesRec walks the positions from currentPos to size row by row
\* (x first) and appends the current vertex after the ones that follow it:
\* the list holds the positions from size down to currentPos.  Written as
\* the list itself, the recursion being one call per vertex.
createVertexesRec(currentPos, size) ==
    LET w     == size.x + 1
        first == currentPos.y * w + currentPos.x
        last  == size.y * w + size.x
    IN  [i \in 1..(last - first + 1) |->
            createVertex(createPosition((last - i + 1) % w, (last - i + 1) \div w), <<>>)]

\* a body that adds the edges to the left and to the bottom neighbour only
addEdgesToVertexOneWay(v0, vertexes, size) ==
    LET p  == v0.pos
        v1 == IF p.x > 0
              THEN addEdge(v0, createEdge(1, worldGetVertexByPos(vertexes, createPosition(p.x - 1, p.y))))
              ELSE v0
    IN  IF p.y > 0
        THEN addEdge(v1, createEdge(1, worldGetVertexByPos(vertexes, createPosition(p.x, p.y - 1))))
        ELSE v1

\* the body of addEdgesToGraphRec for one vertex of the cursor
addEdgesToVertex(v0, vertexes, size) ==
    LET p  == v0.pos
        v1 == IF p.x > 0
              THEN addEdge(v0, createEdge(1, worldGetVertexByPos(vertexes, createPosition(p.x - 1, p.y))))
              ELSE v0
        v2 == IF p.x < size.x
              THEN addEdge(v1, createEdge(1, worldGetVertexByPos(vertexes, createPosition(p.x + 1, p.y))))
              ELSE v1
        v3 == IF p.y > 0
              THEN addEdge(v2, createEdge(1, worldGetVertexByPos(vertexes, createPosition(p.x, p.y - 1))))
              ELSE v2
        v4 == IF p.y < size.y
              THEN addEdge(v3, createEdge(1, worldGetVertexByPos(vertexes, createPosition(p.x, p.y + 1))))
              ELSE v3
    IN  v4

\* appendList(addEdgesToGraphRec(tail(cursor)), vertex): the cursor reversed
addEdgesToGraphRec(cursorL, vertexes, size) ==
    [i \in 1..Len(cursorL) |-> addEdgesToVertex(cursorL[Len(cursorL) - i + 1], vertexes, size)]

addEdgesToGraph(vertexes, size) == addEdgesToGraphRec(vertexes, vertexes, size)

createGraph(v, n) == [vertexes |-> v, n |-> n]

buildWorld(size) ==
    [graph |-> createGraph(addEdgesToGraph(createVertexesRec(createPosition(0, 0), size), size),
                           size.x * size.y),
     size  |-> size]

\* a world without bounds
isInWorldAnywhere(w, pos) == TRUE

\* a world whose far bounds are exclusive
isInWorldExclusive(w, pos) == pos.x >= 0 /\ pos.x < w.size.x /\ pos.y >= 0 /\ pos.y < w.size.y

isInWorld(w, pos) == pos.x >= 0 /\ pos.x <= w.size.x /\ pos.y >= 0 /\ pos.y <= w.size.y

-----------------------------------------------------------------------------
(* actors/actors.ts: records and registry operations *)

ActorType == {"ENEMY", "TOWER", "SPAWNER", "GOAL", "WALL", "UNKNOWN"}

\* The `actions` of an actor are those of the template it was copied from
\* (every copy keeps them); the model keeps the template's name and
\* dispatches on it (see the templates below).
setLifePoint(anActor, newHealth) == [anActor EXCEPT !.health = newHealth]

setActorPosition(anActor, newPosition) == [anActor EXCEPT !.position = newPosition]

copyActor(anActor) == anActor

\* copyNewActor / getNewId: the copy carries id_value, the counter is bumped by the caller
\* a copy that keeps the id of the template
copyNewActorSameId(anActor, idv) == anActor

copyNewActor(anActor, idv) == [anActor EXCEPT !.id = idv]

getNewId(idv) == idv + 1

\* getActorById, replaceActor and removeActor walk the list to the first actor
\* with the id: its index, 0 if none
firstActorWithId(as, anId) ==
    LET at == {i \in 1..Len(as) : as[i].id = anId}
    IN  IF at = {} THEN 0 ELSE CHOOSE i \in at : \A j \in at : i <= j

getActorById(as, anId) ==
    LET i == firstActorWithId(as, anId)
    IN  IF i = 0 THEN <<>> ELSE <<copyActor(as[i])>>

\* a replacement that moves the replaced actor to the front of the list
replaceActorToFront(as, newActor) ==
    LET i == firstActorWithId(as, newActor.id)
    IN  IF i = 0 THEN as ELSE <<newActor>> \o SubSeq(as, 1, i - 1) \o SubSeq(as, i + 1, Len(as))

replaceActor(as, newActor) ==
    LET i == firstActorWithId(as, newActor.id)
    IN  IF i = 0 THEN as ELSE [as EXCEPT ![i] = newActor]

removeActor(as, id) ==
    LET i == firstActorWithId(as, id)
    IN  IF i = 0 THEN as ELSE SubSeq(as, 1, i - 1) \o SubSeq(as, i + 1, Len(as))

\* listFoldR with cons(elt, acc): the actors at pos, in the order of the list
getActorsAtPos(as, pos) == SelectSeq(as, LAMBDA elt: positionEquals(elt.position, pos))

reverseList(l) == [i \in 1..Len(l) |-> l[Len(l) - i + 1]]

\* listFoldR with appendList(acc, actor): the fold consumes the list from its
\* last element, so the actors of the type come out in reversed order
getActorsByType(as, type) == reverseList(SelectSeq(as, LAMBDA actor: actor.type = type))

getGoals(as) == getActorsByType(as, "GOAL")

\* actorDistance is Math.sqrt of this integer
actorDistance2(actor1, actor2) == positionDistance2(actor1.position, actor2.position)

\* a range query that leaves out the actors of the reference actor's cell
getAllActorsInRangeOtherCell(as, actor, range) ==
    reverseList(SelectSeq(as, LAMBDA elt: actorDistance2(elt, actor) <= range * range
                                          /\ elt.position # actor.position))

\* listFoldR with appendList(acc, elt): reversed order, as getActorsByType
getAllActorsInRange(as, actor, range) ==
    reverseList(SelectSeq(as, LAMBDA elt: actorDistance2(elt, actor) <= range * range /\ elt.id # actor.id))

\* a choice that takes the first goal of getGoals
chooseGoalFirst(anActor, as) ==
    LET goals == getGoals(as)
    IN  IF goals = <<>> THEN <<>> ELSE <<Head(goals)>>

chooseGoal(anActor, as) ==
    LET goals == getGoals(as)
    IN  IF goals = <<>> THEN <<>>
        ELSE <<listFoldR(LAMBDA acc, goal:
                             IF actorDistance2(anActor, goal) < actorDistance2(anActor, acc)
                             THEN goal ELSE acc,
                         Head(goals), goals)>>

\* every position can be walked on
isWalkableByEnemyAlways(as, pos) == TRUE

\* a position can be walked on as soon as an enemy or a goal stands on it
isWalkableByEnemyShared(as, pos) ==
    \/ getActorsAtPos(as, pos) = <<>>
    \/ \E i \in DOMAIN as : as[i].position = pos /\ as[i].type \in {"ENEMY", "GOAL"}

isWalkableByEnemy(as, pos) ==
    listFoldR(LAMBDA acc, actor: IF actor.type = "ENEMY" \/ actor.type = "GOAL" THEN acc ELSE FALSE,
              TRUE, getActorsAtPos(as, pos))

-----------------------------------------------------------------------------
(* common/graph.ts: A* *)

\* score = distance + Math.sqrt(h2): kept as the pair (g, h2) and compared exactly
makeNode(parent, vertex, dst) ==
    LET distance == IF parent # <<>> THEN parent[1].distance + 1 ELSE 0
    IN  [parent   |-> parent,
         vertex   |-> vertex,
         distance |-> distance,
         score    |-> [g |-> distance, h2 |-> positionDistance2(vertex.pos, dst)]]

\* s1 < s2 on the scores g + sqrt(h2)
ScoreLess(s1, s2) == SqrtLess(s1.h2, s2.h2, s2.g - s1.g)

\* the node added last, whatever its score
extractNewestNode(nodes) == nodes[Len(nodes)]

\* the node of the lowest distance, whatever is left to the destination
extractNodeOfLowestDistance(nodes) ==
    listFoldR(LAMBDA acc, node: IF node.distance < acc.distance THEN node ELSE acc,
              Head(nodes), nodes)

extractClosestNode(nodes) ==
    listFoldR(LAMBDA acc, node: IF ScoreLess(node.score, acc.score) THEN node ELSE acc,
              Head(nodes), nodes)

\* the path without the vertex the search started from
RECURSIVE reconstructPathNoRoot(_)
reconstructPathNoRoot(node) ==
    IF node.parent = <<>> THEN <<>>
    ELSE appendList(reconstructPathNoRoot(node.parent[1]), node.vertex)

RECURSIVE reconstructPath(_)
reconstructPath(node) ==
    IF node.parent = <<>> THEN cons(node.vertex, <<>>)
    ELSE appendList(reconstructPath(node.parent[1]), node.vertex)

\* index of the first node of the list at the position of node, 0 if none
firstNodeAt(nodes, node) ==
    LET at == {i \in 1..Len(nodes) : nodes[i].vertex.pos = node.vertex.pos}
    IN  IF at = {} THEN 0 ELSE CHOOSE i \in at : \A j \in at : i <= j

isNodeInList(nodes, node) == firstNodeAt(nodes, node) # 0

UnexpectedError == <<[error |-> "Unexpected error"]>>

\* an update that also takes a node of equal distance
updateNodeInListOrEqual(nodes, node) ==
    LET i == firstNodeAt(nodes, node)
    IN  IF i = 0 THEN UnexpectedError
        ELSE IF node.distance <= nodes[i].distance
        THEN [nodes EXCEPT ![i] = node]
        ELSE nodes

\* throws "Unexpected error" when no node of the list is at the position
updateNodeInList(nodes, node) ==
    LET i == firstNodeAt(nodes, node)
    IN  IF i = 0 THEN UnexpectedError
        ELSE IF node.distance < nodes[i].distance
        THEN [nodes EXCEPT ![i] = node]
        ELSE nodes

\* a removal that leaves the list as it is
removeNodeFromListKept(nodes, node) == nodes

removeNodeFromList(nodes, node) ==
    LET i == firstNodeAt(nodes, node)
    IN  IF i = 0 THEN nodes
        ELSE SubSeq(nodes, 1, i - 1) \o SubSeq(nodes, i + 1, Len(nodes))

\* a callback that opens a neighbour without asking whether it can be walked on
expandEdgeUnchecked(acc, edge, current, dst, G, as) ==
    LET neighbor == makeNode(<<current>>, getVertexByPos(G.vertexes, edge.vertex.pos), dst)
    IN  IF isNodeInList(acc[2], neighbor) THEN acc
        ELSE IF ~isNodeInList(acc[1], neighbor) THEN <<appendList(acc[1], neighbor), acc[2]>>
        ELSE <<updateNodeInList(acc[1], neighbor), acc[2]>>

\* the callback folded over current.vertex.adj; acc = <<openList, closedList>>;
\* `const neighbor` is bound to its value once (neighbor \in {..})
expandEdge(acc, edge, current, dst, G, as) ==
    CHOOSE r \in
        {IF isNodeInList(acc[2], neighbor) THEN acc
         ELSE IF ~isWalkableByEnemy(as, neighbor.vertex.pos) THEN <<acc[1], cons(neighbor, acc[2])>>
         ELSE IF ~isNodeInList(acc[1], neighbor) THEN <<appendList(acc[1], neighbor), acc[2]>>
         ELSE <<updateNodeInList(acc[1], neighbor), acc[2]>> :
            neighbor \in {makeNode(<<current>>, getVertexByPos(G.vertexes, edge.vertex.pos), dst)}} : TRUE

\* One call of pathfindingRec on a search state [openList, closedList, done, path]:
\* done with the returned path, or the lists given to the recursive call
\* (`const current` is bound to its value once).
pathfindingStep(st, dst, G, as) ==
    IF st.openList = <<>> THEN [st EXCEPT !.done = TRUE, !.path = <<>>]
    ELSE CHOOSE r \in
             {LET open1 == removeNodeFromList(st.openList, current)
              IN  IF positionEquals(current.vertex.pos, dst)
                  THEN [st EXCEPT !.done = TRUE, !.path = reconstructPath(current)]
                  ELSE LET closed1 == appendList(st.closedList, current)
                           next    == listFoldR(LAMBDA acc, edge: expandEdge(acc, edge, current, dst, G, as),
                                                <<open1, closed1>>, current.vertex.adj)
                       IN  [st EXCEPT !.openList = next[1], !.closedList = next[2]] :
                 current \in {extractClosestNode(st.openList)}} : TRUE

\* up to n successive calls of pathfindingRec (a tail recursion, run by halves)
RECURSIVE pathfindingCalls(_, _, _, _, _)
pathfindingCalls(n, st, dst, G, as) ==
    IF st.done \/ n = 0 THEN st
    ELSE IF n = 1 THEN pathfindingStep(st, dst, G, as)
    ELSE pathfindingCalls(n - n \div 2, pathfindingCalls(n \div 2, st, dst, G, as), dst, G, as)

\* value standing for a search that has not returned within the calls allowed
NotTerminated == <<[error |-> "pathfindingRec still running"]>>

\* Calls allowed: every call that does not return moves one node from the open
\* to the closed list, and the expansions of one vertex are counted generously.
MaxCalls(G) == 4 * Len(G.vertexes) + 4

pathfindingRec(openList, closedList, dst, G, as) ==
    LET st == pathfindingCalls(MaxCalls(G),
                               [openList |-> openList, closedList |-> closedList,
                                done |-> FALSE, path |-> <<>>],
                               dst, G, as)
    IN  IF st.done THEN st.path ELSE NotTerminated

\* a search that gives up when the source itself cannot be walked on
pathfindingFromWalkable(src, dst, G, as) ==
    IF ~isWalkableByEnemy(as, src) THEN <<>>
    ELSE pathfindingRec(cons(makeNode(<<>>, getVertexByPos(G.vertexes, src), dst), <<>>), <<>>, dst, G, as)

pathfinding(src, dst, G, as) ==
    pathfindingRec(cons(makeNode(<<>>, getVertexByPos(G.vertexes, src), dst), <<>>), <<>>, dst, G, as)

\* a mover that jumps onto the goal when no path of two vertexes leads to it
getNextEnemyPosJump(actor, as, w) ==
    LET goal == chooseGoal(actor, as)
    IN  IF goal = <<>> THEN actor.position
        ELSE LET path == pathfinding(actor.position, goal[1].position, w.graph, as)
             IN  IF path = <<>> \/ Tail(path) = <<>> THEN goal[1].position
                 ELSE Head(Tail(path)).pos

\* a mover that goes straight to the end of the path
getNextEnemyPosLast(actor, as, w) ==
    LET goal == chooseGoal(actor, as)
    IN  IF goal = <<>> THEN actor.position
        ELSE LET path == pathfinding(actor.position, goal[1].position, w.graph, as)
             IN  IF path = <<>> \/ Tail(path) = <<>> THEN actor.position
                 ELSE path[Len(path)].pos

getNextEnemyPos(actor, as, w) ==
    LET goal == chooseGoal(actor, as)
    IN  IF goal = <<>> THEN actor.position
        ELSE LET path == pathfinding(actor.position, goal[1].position, w.graph, as)
             IN  IF path = <<>> \/ Tail(path) = <<>> THEN actor.position
                 ELSE Head(Tail(path)).pos

-----------------------------------------------------------------------------
(* actors/actorsTemplate.ts *)

Template(type, name, health, maxHealth, position) ==
    [id |-> -1, position |-> position, type |-> type, name |-> name,
     health |-> health, maxHealth |-> maxHealth]

remyWithSpoon           == Template("ENEMY", "Remy with a Spoon", 200, 200, createPosition(0, 5))
hungryRemyWithSpoon     == Template("ENEMY", "Hungry Remy with a Spoon", 500, 500, createPosition(1, 1))
remyThrowingCheese      == Template("ENEMY", "Remy Throwing Cheese", 200, 200, createPosition(1, 1))
gusteauWithPan          == Template("TOWER", "Gusteau with a Pan", 200, 200, createPosition(5, 5))
angryGusteauWithPan     == Template("TOWER", "Angry Gusteau with a Pan", 300, 300, createPosition(5, 6))
veryAngryGusteauWithPan == Template("TOWER", "Very Angry Gusteau with a Pan", 500, 500, createPosition(6, 5))
linguini                == Template("GOAL", "Linguini", 50, 50, createPosition(8, 5))
marmite                 == Template("WALL", "Marmite", 1000, 1000, createPosition(1, 1))
worktop                 == Template("WALL", "Worktop", 1000, 1000, createPosition(1, 1))
hole                    == Template("SPAWNER", "Hole", 20, 20, createPosition(0, 5))

EnemyNames == {"Remy with a Spoon", "Hungry Remy with a Spoon", "Remy Throwing Cheese"}
TowerNames == {"Gusteau with a Pan", "Angry Gusteau with a Pan", "Very Angry Gusteau with a Pan"}

\* damage of the attack action of each template
AttackDamage(name) ==
    CASE name = "Remy with a Spoon"             -> 20
      [] name = "Hungry Remy with a Spoon"      -> 50
      [] name = "Remy Throwing Cheese"          -> 10
      [] name = "Gusteau with a Pan"            -> 20
      [] name = "Angry Gusteau with a Pan"      -> 30
      [] name = "Very Angry Gusteau with a Pan" -> 50
      [] OTHER                                  -> 0

\* targets among which the towers find the walls too
AttackTargetsWithWalls(anActor, as) ==
    IF anActor.name \in {"Remy with a Spoon", "Hungry Remy with a Spoon"}
    THEN concatList(getActorsByType(getAllActorsInRange(as, anActor, 1), "GOAL"),
                    getActorsByType(getAllActorsInRange(as, anActor, 1), "TOWER"))
    ELSE IF anActor.name = "Remy Throwing Cheese"
    THEN concatList(getActorsByType(getAllActorsInRange(as, anActor, 3), "GOAL"),
                    getActorsByType(getAllActorsInRange(as, anActor, 1), "TOWER"))
    ELSE concatList(getActorsByType(getAllActorsInRange(as, anActor, 2), "ENEMY"),
                    getActorsByType(getAllActorsInRange(as, anActor, 2), "WALL"))

\* the list an attacking template draws its target from
AttackTargets(anActor, as) ==
    IF anActor.name \in {"Remy with a Spoon", "Hungry Remy with a Spoon"}
    THEN concatList(getActorsByType(getAllActorsInRange(as, anActor, 1), "GOAL"),
                    getActorsByType(getAllActorsInRange(as, anActor, 1), "TOWER"))
    ELSE IF anActor.name = "Remy Throwing Cheese"
    THEN concatList(getActorsByType(getAllActorsInRange(as, anActor, 3), "GOAL"),
                    getActorsByType(getAllActorsInRange(as, anActor, 1), "TOWER"))
    ELSE getActorsByType(getAllActorsInRange(as, anActor, 2), "ENEMY")

\* a move action the towers have too
moveActionOfTowers(anActor, aWorld, as) ==
    IF anActor.name \in EnemyNames \cup TowerNames
    THEN <<setActorPosition(anActor, getNextEnemyPos(anActor, as, aWorld))>>
    ELSE <<>>

\* actions.move: the proposal of anActor (<<>> when the template has no move)
moveAction(anActor, aWorld, as) ==
    IF anActor.name \in EnemyNames
    THEN <<setActorPosition(anActor, getNextEnemyPos(anActor, as, aWorld))>>
    ELSE <<>>

\* actions.attack: the set of proposals the random draw can produce
attackAction(anActor, aWorld, as) ==
    IF anActor.name \in EnemyNames \cup TowerNames
    THEN {IF target # <<>>
          THEN cons([id |-> target[1].id, damage |-> AttackDamage(anActor.name)], <<>>)
          ELSE <<>> : target \in randomList(AttackTargets(anActor, as))}
    ELSE IF anActor.name = "Hole"
    THEN {cons([id |-> anActor.id, damage |-> 1], <<>>)}
    ELSE {<<>>}

\* a heal action the hole has too
healActionOfHole(anActor, aWorld, as) ==
    IF anActor.name \in EnemyNames \cup TowerNames
    THEN cons([id |-> anActor.id, heal |-> 10], <<>>)
    ELSE IF anActor.name = "Linguini"
    THEN cons([id |-> anActor.id, heal |-> 5], <<>>)
    ELSE IF anActor.name = "Hole"
    THEN cons([id |-> anActor.id, heal |-> 1], <<>>)
    ELSE <<>>

\* actions.heal
healAction(anActor, aWorld, as) ==
    IF anActor.name \in EnemyNames \cup TowerNames
    THEN cons([id |-> anActor.id, heal |-> 10], <<>>)
    ELSE IF anActor.name = "Linguini"
    THEN cons([id |-> anActor.id, heal |-> 5], <<>>)
    ELSE <<>>

\* actions.spawn, given the value of id_value when it is called; <<>> when
\* the template has no spawn or the spawner does not spawn
\* a hole that spawns when its health is even
spawnActionEven(anActor, aWorld, as, idv) ==
    IF anActor.name = "Hole" /\ anActor.health % 2 = 0
    THEN <<copyNewActor(setActorPosition(remyWithSpoon, createPosition(0, 5)), idv)>>
    ELSE <<>>

\* a hole that spawns on the left of its own cell
spawnActionOutside(anActor, aWorld, as, idv) ==
    IF anActor.name = "Hole" /\ anActor.health % 3 = 0
    THEN <<copyNewActor(setActorPosition(remyWithSpoon, createPosition(-1, 5)), idv)>>
    ELSE <<>>

\* a hole that spawns on the cell of a tower
spawnActionOnTower(anActor, aWorld, as, idv) ==
    IF anActor.name = "Hole" /\ anActor.health % 3 = 0
    THEN <<copyNewActor(setActorPosition(remyWithSpoon, gusteauWithPan.position), idv)>>
    ELSE <<>>

\* a hole that spawns a goal
spawnActionOfGoal(anActor, aWorld, as, idv) ==
    IF anActor.name = "Hole" /\ anActor.health % 3 = 0
    THEN <<copyNewActor(setActorPosition(linguini, createPosition(0, 5)), idv)>>
    ELSE <<>>

spawnAction(anActor, aWorld, as, idv) ==
    IF anActor.name = "Hole" /\ anActor.health % 3 = 0
    THEN <<copyNewActor(setActorPosition(remyWithSpoon, createPosition(0, 5)), idv)>>
    ELSE <<>>

-----------------------------------------------------------------------------
(* actors/actors.ts: initializeActors; the ids are id_value .. id_value + 35 *)

InitialPlacement ==
    <<  <<worktop, 0, 10>>, <<worktop, 1, 10>>, <<worktop, 3, 10>>, <<worktop, 4, 10>>,
        <<worktop, 5, 10>>, <<worktop, 8, 10>>, <<worktop, 9, 10>>, <<worktop, 10, 10>>,
        <<marmite, 2, 10>>, <<marmite, 6, 10>>, <<marmite, 7, 10>>,
        <<worktop, 0, 0>>, <<worktop, 1, 0>>, <<worktop, 2, 0>>, <<worktop, 3, 0>>,
        <<worktop, 5, 0>>, <<worktop, 7, 0>>, <<worktop, 9, 0>>, <<worktop, 10, 0>>,
        <<marmite, 4, 0>>, <<marmite, 6, 0>>, <<marmite, 8, 0>>,
        <<hole, 0, 5>>,
        <<remyWithSpoon, 0, 5>>, <<remyWithSpoon, 0, 4>>, <<remyWithSpoon, 0, 6>>,
        <<remyThrowingCheese, 1, 7>>, <<remyThrowingCheese, 1, 3>>,
        <<gusteauWithPan, 5, 5>>, <<gusteauWithPan, 5, 4>>, <<gusteauWithPan, 5, 6>>,
        <<gusteauWithPan, 6, 7>>, <<gusteauWithPan, 6, 3>>, <<gusteauWithPan, 9, 2>>,
        <<gusteauWithPan, 9, 8>>,
        <<linguini, 8, 5>>  >>

initializeActors(aWorld, idv) ==
    [i \in 1..Len(InitialPlacement) |->
        copyNewActor(setActorPosition(InitialPlacement[i][1],
                                      createPosition(InitialPlacement[i][2], InitialPlacement[i][3])),
                     idv + i - 1)]

-----------------------------------------------------------------------------
(* engine/phases.ts: the resolvers of computePhases; each returns <<World, List<Actor>>> *)

\* a move resolver that returns a world built anew, of one cell
moveResolverRebuild(aWorld, as, props) ==
    listFoldR(LAMBDA acc, proposal:
                  IF proposal # <<>> /\ isInWorld(aWorld, proposal[1].position)
                  THEN <<acc[1], replaceActor(acc[2], proposal[1])>>
                  ELSE acc,
              <<buildWorld(createPosition(0, 0)), as>>, props)

moveResolver(aWorld, as, props) ==
    listFoldR(LAMBDA acc, proposal:
                  IF proposal # <<>> /\ isInWorld(aWorld, proposal[1].position)
                  THEN <<acc[1], replaceActor(acc[2], proposal[1])>>
                  ELSE acc,
              <<aWorld, as>>, props)

\* an attack that removes the target only when the damage exceeds its health
attackPairStrict(acc2, attack) ==
    LET anActor == getActorById(acc2[2], attack.id)
    IN  IF anActor # <<>>
        THEN IF anActor[1].health < attack.damage
             THEN <<acc2[1], removeActor(acc2[2], anActor[1].id)>>
             ELSE <<acc2[1], replaceActor(acc2[2], setLifePoint(anActor[1], anActor[1].health - attack.damage))>>
        ELSE acc2

\* an attack that takes the damage from the maxHealth of the target
attackPairFromMaxHealth(acc2, attack) ==
    LET anActor == getActorById(acc2[2], attack.id)
    IN  IF anActor # <<>>
        THEN IF anActor[1].health <= attack.damage
             THEN <<acc2[1], removeActor(acc2[2], anActor[1].id)>>
             ELSE <<acc2[1], replaceActor(acc2[2], setLifePoint(anActor[1], anActor[1].maxHealth - attack.damage))>>
        ELSE acc2

\* the inner callback of the attack resolver, applied to one {id, damage}
attackPair(acc2, attack) ==
    LET anActor == getActorById(acc2[2], attack.id)
    IN  IF anActor # <<>>
        THEN IF anActor[1].health <= attack.damage
             THEN <<acc2[1], removeActor(acc2[2], anActor[1].id)>>
             ELSE <<acc2[1], replaceActor(acc2[2], setLifePoint(anActor[1], anActor[1].health - attack.damage))>>
        ELSE acc2

\* an attack resolver that reads every target's health in the registry the
\* phase received
attackResolverSnapshot(aWorld, as, props) ==
    listFoldR(LAMBDA acc, proposal:
                  IF proposal # <<>>
                  THEN listFoldR(LAMBDA acc2, attack:
                                     LET anActor == getActorById(as, attack.id)
                                     IN  IF anActor # <<>>
                                         THEN IF anActor[1].health <= attack.damage
                                              THEN <<acc2[1], removeActor(acc2[2], anActor[1].id)>>
                                              ELSE <<acc2[1], replaceActor(acc2[2], setLifePoint(anActor[1], anActor[1].health - attack.damage))>>
                                         ELSE acc2,
                                 acc, proposal)
                  ELSE acc,
              <<aWorld, as>>, props)

\* an attack resolver that takes the target from the registry the phase
\* received and puts it, damaged, at the end of the registry
attackResolverPuttingBack(aWorld, as, props) ==
    listFoldR(LAMBDA acc, proposal:
                  IF proposal # <<>>
                  THEN listFoldR(LAMBDA acc2, attack:
                                     LET anActor == getActorById(as, attack.id)
                                     IN  IF anActor # <<>>
                                         THEN IF anActor[1].health <= attack.damage
                                              THEN <<acc2[1], removeActor(acc2[2], anActor[1].id)>>
                                              ELSE <<acc2[1],
                                                     appendList(removeActor(acc2[2], anActor[1].id),
                                                                setLifePoint(anActor[1], anActor[1].health - attack.damage))>>
                                         ELSE acc2,
                                 acc, proposal)
                  ELSE acc,
              <<aWorld, as>>, props)

attackResolver(aWorld, as, props) ==
    listFoldR(LAMBDA acc, proposal:
                  IF proposal # <<>> THEN listFoldR(attackPair, acc, proposal) ELSE acc,
              <<aWorld, as>>, props)

\* a spawn resolver that appends every proposal to the result of the others
spawnResolverChained(aWorld, as, props) ==
    listFoldR(LAMBDA acc, proposal:
                  IF proposal # <<>> THEN <<acc[1], appendList(acc[2], proposal[1])>> ELSE acc,
              <<aWorld, as>>, props)

spawnResolver(aWorld, as, props) ==
    listFoldR(LAMBDA acc, proposal:
                  IF proposal # <<>> THEN <<acc[1], appendList(as, proposal[1])>> ELSE acc,
              <<aWorld, as>>, props)

\* a heal that adds the amount whatever maxHealth is
healPairUnbounded(acc2, attack) ==
    LET anActor == getActorById(acc2[2], attack.id)
    IN  IF anActor # <<>>
        THEN <<acc2[1], replaceActor(acc2[2], setLifePoint(anActor[1], anActor[1].health + attack.heal))>>
        ELSE acc2

\* the inner callback of the heal resolver, applied to one {id, heal}
healPair(acc2, attack) ==
    LET anActor == getActorById(acc2[2], attack.id)
    IN  IF anActor # <<>>
        THEN IF anActor[1].health + attack.heal > anActor[1].maxHealth
             THEN <<acc2[1], replaceActor(acc2[2], setLifePoint(anActor[1], anActor[1].maxHealth))>>
             ELSE <<acc2[1], replaceActor(acc2[2], setLifePoint(anActor[1], anActor[1].health + attack.heal))>>
        ELSE acc2

\* a heal resolver that fills every target up to maxHealth
healResolverFull(aWorld, as, props) ==
    listFoldR(LAMBDA acc, proposal:
                  IF proposal # <<>>
                  THEN listFoldR(LAMBDA acc2, attack:
                                     LET anActor == getActorById(acc2[2], attack.id)
                                     IN  IF anActor # <<>>
                                         THEN <<acc2[1], replaceActor(acc2[2], setLifePoint(anActor[1], anActor[1].maxHealth))>>
                                         ELSE acc2,
                                 acc, proposal)
                  ELSE acc,
              <<aWorld, as>>, props)

\* a heal resolver that takes the proposals, and the pairs of each, from first
\* to last
healResolverForward(aWorld, as, props) ==
    listFoldR(LAMBDA acc, proposal:
                  IF proposal # <<>> THEN listFoldR(healPair, acc, reverseList(proposal)) ELSE acc,
              <<aWorld, as>>, reverseList(props))

healResolver(aWorld, as, props) ==
    listFoldR(LAMBDA acc, proposal:
                  IF proposal # <<>> THEN listFoldR(healPair, acc, proposal) ELSE acc,
              <<aWorld, as>>, props)

\* computePhases: the funcName of the phases, in the order of the list
Phases == <<"move", "attack", "spawn", "heal">>

resolver(funcName, aWorld, as, props) ==
    CASE funcName = "move"   -> moveResolver(aWorld, as, props)
      [] funcName = "attack" -> attackResolver(aWorld, as, props)
      [] funcName = "spawn"  -> spawnResolver(aWorld, as, props)
      [] funcName = "heal"   -> healResolver(aWorld, as, props)

-----------------------------------------------------------------------------
(* engine/engine.ts *)

\* a test that looks for the goal first
gameIsOverGoalFirst(aWorld, as) ==
    IF getActorsByType(as, "GOAL") = <<>> THEN "ENEMY"
    ELSE IF getActorsByType(as, "ENEMY") = <<>> /\ getActorsByType(as, "SPAWNER") = <<>> THEN "TOWER"
    ELSE "NONE"

gameIsOver(aWorld, as) ==
    IF getActorsByType(as, "ENEMY") = <<>> /\ getActorsByType(as, "SPAWNER") = <<>> THEN "TOWER"
    ELSE IF getActorsByType(as, "GOAL") = <<>> THEN "ENEMY"
    ELSE "NONE"

-----------------------------------------------------------------------------
(* main.ts: the callback folded over the phases *)

\* listMap of the attack actions over rest: one list per outcome of the
\* random draws (the lists of the two halves of rest, joined)
RECURSIVE attackProposalLists(_, _, _)
attackProposalLists(rest, aWorld, as) ==
    IF rest = <<>> THEN {<<>>}
    ELSE IF Len(rest) = 1 THEN {<<p>> : p \in attackAction(rest[1], aWorld, as)}
    ELSE LET m == Len(rest) \div 2
         IN  {hd \o tl : hd \in attackProposalLists(SubSeq(rest, 1, m), aWorld, as),
                         tl \in attackProposalLists(SubSeq(rest, m + 1, Len(rest)), aWorld, as)}

\* listMap of the spawn actions over rest: the head is called first, each call
\* that copies the template takes the current id_value and bumps it (the
\* first half of rest is mapped before the second)
RECURSIVE spawnProposalList(_, _, _, _)
spawnProposalList(rest, aWorld, as, idv) ==
    IF rest = <<>> THEN [props |-> <<>>, idv |-> idv]
    ELSE IF Len(rest) = 1
    THEN LET p == spawnAction(rest[1], aWorld, as, idv)
         IN  [props |-> <<p>>, idv |-> IF p # <<>> THEN getNewId(idv) ELSE idv]
    ELSE LET m  == Len(rest) \div 2
             hd == spawnProposalList(SubSeq(rest, 1, m), aWorld, as, idv)
             tl == spawnProposalList(SubSeq(rest, m + 1, Len(rest)), aWorld, as, hd.idv)
         IN  [props |-> hd.props \o tl.props, idv |-> tl.idv]

\* anActor.actions[funcName]?.(anActor, aWorld, actors): the set of proposals
\* the call can return, idv being the value of id_value when it is made
actorAction(funcName, anActor, aWorld, as, idv) ==
    CASE funcName = "move"   -> {moveAction(anActor, aWorld, as)}
      [] funcName = "attack" -> attackAction(anActor, aWorld, as)
      [] funcName = "spawn"  -> {spawnAction(anActor, aWorld, as, idv)}
      [] funcName = "heal"   -> {healAction(anActor, aWorld, as)}

\* Proposals of the actors from the i-th down to the first, in the order the
\* resolvers take them (last actor first), each computed on the registry
\* st.cur in which the proposals of the actors after it are already resolved.
RECURSIVE interleavedFrom(_, _, _, _, _)
interleavedFrom(funcName, aWorld, as, i, st) ==
    IF i = 0 THEN {[props |-> st.props, idv |-> st.idv]}
    ELSE UNION {interleavedFrom(funcName, aWorld, as, i - 1,
                                [props |-> <<p>> \o st.props,
                                 idv   |-> IF funcName = "spawn" /\ p # <<>> THEN getNewId(st.idv) ELSE st.idv,
                                 cur   |-> resolver(funcName, aWorld, st.cur, <<p>>)[2]]) :
                   p \in actorAction(funcName, as[i], aWorld, st.cur, st.idv)}

\* a callback that resolves each proposal before the next one is computed
computeProposalsInterleaved(funcName, aWorld, as, idv) ==
    interleavedFrom(funcName, aWorld, as, Len(as), [props |-> <<>>, idv |-> idv, cur |-> as])

\* listMap(anActor => anActor.actions[funcName]?.(anActor, aWorld, actors), actors):
\* the set of [props, idv] it can produce (idv: id_value afterwards)
computeProposals(funcName, aWorld, as, idv) ==
    CASE funcName = "move" ->
            {[props |-> listMap(LAMBDA anActor: moveAction(anActor, aWorld, as), as), idv |-> idv]}
      [] funcName = "attack" ->
            {[props |-> pl, idv |-> idv] : pl \in attackProposalLists(as, aWorld, as)}
      [] funcName = "spawn" ->
            {spawnProposalList(as, aWorld, as, idv)}
      [] funcName = "heal" ->
            {[props |-> listMap(LAMBDA anActor: healAction(anActor, aWorld, as), as), idv |-> idv]}

ActorIds(as) == {as[i].id : i \in 1..Len(as)}

\* one call of the callback on the registry as with id_value = idv: the
\* registries it can return, each with the value of id_value afterwards
phaseOutcomes(funcName, aWorld, as, idv) ==
    {[actors |-> resolver(funcName, aWorld, as, pr.props)[2], idv |-> pr.idv] :
        pr \in computeProposals(funcName, aWorld, as, idv)}

\* listFoldR(callback, [world, actors], phases) from the k-th phase of the list
\* down to the first, started from any of the [actors, idv] of from
RECURSIVE tickOutcomes(_, _, _)
tickOutcomes(k, aWorld, from) ==
    IF k = 0 THEN from
    ELSE tickOutcomes(k - 1, aWorld,
                      UNION {phaseOutcomes(Phases[k], aWorld, st.actors, st.idv) : st \in from})

-----------------------------------------------------------------------------
(* main.ts: the game loop *)

\* number of calls of the fold's callback the model follows
MaxPhases == 19

WorldSize == createPosition(10, 10)

\* ticks of the loop that were over in the first state followed
FirstTick == IF call.fn = "main" THEN call.ticks ELSE 0

\* calls of the callback made since the first state followed
PhasesRun ==
    (tick - FirstTick) * Len(Phases) + (IF cursor = 0 THEN 0 ELSE Len(Phases) - cursor)

Init ==
    /\ world = buildWorld(WorldSize)
    /\ actors = initializeActors(world, 0)
    /\ id_value = Len(InitialPlacement)
    /\ cursor = 0
    /\ tick = 0
    /\ lastPhase = "none"
    /\ phaseIn = <<>>
    /\ proposals = <<>>
    /\ usedIds = {}
    /\ winner = "UNSET"
    /\ call = NoCall
    /\ result = <<>>

\* while (gameIsOver(world, actors) === "NONE"): enter the fold over the phases,
\* or leave the loop
LoopTest ==
    /\ cursor = 0
    /\ winner \in {"UNSET", "NONE"}
    /\ PhasesRun < MaxPhases
    /\ winner' = gameIsOver(world, actors)
    /\ cursor' = IF winner' = "NONE" THEN Len(Phases) ELSE 0
    /\ lastPhase' = "none"
    /\ UNCHANGED <<world, actors, id_value, tick, phaseIn, proposals, usedIds, call, result>>

\* One call of the callback of listFoldR(..., [world, actors], phases).
\* listFoldR(f, init, l) = f(listFoldR(f, init, tail(l)), head(l)): the callback
\* is first applied to the last phase of the list, last to its head; cursor
\* is the index of the phase the next call receives.
RunPhase(funcName) ==
    /\ PhasesRun < MaxPhases
    /\ \E pr \in computeProposals(funcName, world, actors, id_value) :
          LET res == resolver(funcName, world, actors, pr.props)
          IN  /\ world' = res[1]
              /\ actors' = res[2]
              /\ id_value' = pr.idv
              /\ proposals' = pr.props
              /\ usedIds' = usedIds \cup ActorIds(actors)
    /\ phaseIn' = actors
    /\ lastPhase' = funcName
    /\ cursor' = cursor - 1
    /\ tick' = IF cursor = 1 THEN tick + 1 ELSE tick
    /\ UNCHANGED <<winner, call, result>>

MovePhase ==
    /\ cursor >= 1
    /\ Phases[cursor] = "move"
    /\ RunPhase("move")

AttackPhase ==
    /\ cursor >= 1
    /\ Phases[cursor] = "attack"
    /\ RunPhase("attack")

SpawnPhase ==
    /\ cursor >= 1
    /\ Phases[cursor] = "spawn"
    /\ RunPhase("spawn")

HealPhase ==
    /\ cursor >= 1
    /\ Phases[cursor] = "heal"
    /\ RunPhase("heal")

Next == LoopTest \/ MovePhase \/ AttackPhase \/ SpawnPhase \/ HealPhase

Spec == Init /\ [][Next]_vars

-----------------------------------------------------------------------------
(* The same loop started from a small kitchen: a hole, two enemies, a tower and
   the goal, on a world that holds the cell (0, 5) the hole spawns on. *)

ArenaSize == createPosition(3, 5)

ArenaPlacement(hHole, hE1, hE2, pE2) ==
    <<  <<setLifePoint(hole, hHole), createPosition(0, 5)>>,
        <<setLifePoint(remyWithSpoon, hE1), createPosition(2, 4)>>,
        <<setLifePoint(hungryRemyWithSpoon, hE2), pE2>>,
        <<gusteauWithPan, createPosition(1, 4)>>,
        <<linguini, createPosition(3, 4)>>  >>

initializeArena(placement, idv) ==
    [i \in 1..Len(placement) |->
        copyNewActor(setActorPosition(placement[i][1], placement[i][2]), idv + i - 1)]

InitArena ==
    /\ world = buildWorld(ArenaSize)
    /\ \E hHole \in {1, 3, 20}, hE1 \in {10, 200}, hE2 \in {10, 500},
          pE2 \in {createPosition(3, 5), createPosition(0, 0)} :
          actors = initializeArena(ArenaPlacement(hHole, hE1, hE2, pE2), 0)
    /\ id_value = Len(actors)
    /\ cursor = 0
    /\ tick = 0
    /\ lastPhase = "none"
    /\ phaseIn = <<>>
    /\ proposals = <<>>
    /\ usedIds = {}
    /\ winner = "UNSET"
    /\ call = NoCall
    /\ result = <<>>

SpecArena == InitArena /\ [][Next]_vars

-----------------------------------------------------------------------------
(* The same loop followed from a later tick of the game initializeActors
   starts: the ticks before it are run with one outcome of every draw. *)

\* ticks of the loop run before the first state followed
TicksBefore == 10

\* one of the lists of proposals the callback can compute
oneProposals(funcName, aWorld, as, idv) ==
    IF funcName = "attack"
    THEN [props |-> [i \in 1..Len(as) |-> CHOOSE p \in attackAction(as[i], aWorld, as) : TRUE],
          idv   |-> idv]
    ELSE CHOOSE pr \in computeProposals(funcName, aWorld, as, idv) : TRUE

\* one call of the callback with these proposals: the registry it returns, the
\* registry and proposals it worked on, and the ids seen so far
onePhase(funcName, aWorld, st) ==
    CHOOSE r \in {[actors  |-> resolver(funcName, aWorld, st.actors, pr.props)[2],
                   idv     |-> pr.idv,
                   phaseIn |-> st.actors,
                   props   |-> pr.props,
                   used    |-> st.used \cup ActorIds(st.actors)] :
                      pr \in {oneProposals(funcName, aWorld, st.actors, st.idv)}} : TRUE

\* listFoldR(callback, [world, actors], phases) with these calls
oneTick(aWorld, st) ==
    CHOOSE r \in {onePhase("move", aWorld, a) :
                     a \in {onePhase("attack", aWorld, b) :
                     b \in {onePhase("spawn", aWorld, c) :
                     c \in {onePhase("heal", aWorld, st)}}}} : TRUE

\* k turns of the loop of main
RECURSIVE ticksFrom(_, _, _)
ticksFrom(k, aWorld, st) ==
    IF k = 0 THEN st
    ELSE CHOOSE r \in {oneTick(aWorld, s) : s \in {ticksFrom(k - 1, aWorld, st)}} : TRUE

InitLate ==
    /\ world = buildWorld(WorldSize)
    /\ \E st \in {ticksFrom(TicksBefore, w,
                             [actors  |-> initializeActors(w, 0),
                              idv     |-> Len(InitialPlacement),
                              phaseIn |-> <<>>,
                              props   |-> <<>>,
                              used    |-> {}]) : w \in {buildWorld(WorldSize)}} :
          /\ actors = st.actors
          /\ id_value = st.idv
          /\ phaseIn = st.phaseIn
          /\ proposals = st.props
          /\ usedIds = st.used
    /\ cursor = 0
    /\ tick = TicksBefore
    /\ lastPhase = "move"
    /\ winner = "NONE"
    /\ call = [fn |-> "main", ticks |-> TicksBefore]
    /\ result = <<>>

SpecLate == InitLate /\ [][Next]_vars

-----------------------------------------------------------------------------
(* Further ticks: the fold over the phases applied again to the registry a
   game has ended with, from the later tick of the game of initializeActors
   and from a small kitchen. *)

\* a small kitchen of weak enemies, the second one next to the goal or in the
\* range of the tower
InitEnding ==
    /\ world = buildWorld(ArenaSize)
    /\ \E hHole \in {1, 3, 5}, pE2 \in {createPosition(3, 5), createPosition(2, 3)} :
          actors = initializeArena(ArenaPlacement(hHole, 10, 10, pE2), 0)
    /\ id_value = Len(actors)
    /\ cursor = 0
    /\ tick = 0
    /\ lastPhase = "none"
    /\ phaseIn = <<>>
    /\ proposals = <<>>
    /\ usedIds = {}
    /\ winner = "UNSET"
    /\ call = NoCall
    /\ result = <<>>

\* gameIsOver of the registry of an ended game, and one more fold
FurtherTick ==
    /\ cursor = 0
    /\ winner \in {"TOWER", "ENEMY"}
    /\ PhasesRun < MaxPhases
    /\ winner' = gameIsOver(world, actors)
    /\ cursor' = Len(Phases)
    /\ lastPhase' = "none"
    /\ UNCHANGED <<world, actors, id_value, tick, phaseIn, proposals, usedIds, call, result>>

NextFurther == Next \/ FurtherTick

SpecFurther == (InitLate \/ InitEnding) /\ [][NextFurther]_vars

-----------------------------------------------------------------------------
(* The resolvers of computePhases and gameIsOver, each applied once to a small
   registry and to proposals of the types of phases.ts *)

\* pairs { id, damage } or { id, heal } the proposals of one phase hold together
MaxPairs == 2

ResSize == createPosition(1, 1)

\* positions inside the world and outside it on each side
ResPositions ==
    {createPosition(0, 0), createPosition(1, 1), createPosition(-1, 0),
     createPosition(2, 1), createPosition(0, -1), createPosition(1, 2)}

ResActor(id, type, health, maxHealth) ==
    [id |-> id, position |-> createPosition(0, 0), type |-> type, name |-> "Actor",
     health |-> health, maxHealth |-> maxHealth]

\* the type, health and maxHealth of the actors of a registry
ResKinds ==
    {<<"ENEMY", 1, 2>>, <<"GOAL", 2, 2>>, <<"SPAWNER", 3, 3>>, <<"TOWER", 1, 1>>, <<"WALL", 2, 3>>}

\* the ids of the actors of a registry, in the order of the list: ids grow
\* along the list and removed actors leave gaps
ResIdLists == {<<>>, <<0>>, <<2>>, <<0, 2>>}

ResRegistries ==
    UNION {{[i \in 1..Len(ids) |-> ResActor(ids[i], ks[i][1], ks[i][2], ks[i][3])] :
               ks \in [1..Len(ids) -> ResKinds]} : ids \in ResIdLists}

\* ids a pair can name (1 is the id of no actor) and its damage or heal (the
\* type is number: negative amounts are possible)
ResIds == {0, 1, 2}

ResAmounts == {-1, 0, 1, 2}

AttackPairs == {[id |-> i, damage |-> d] : i \in ResIds, d \in ResAmounts}

HealPairs == {[id |-> i, heal |-> a] : i \in ResIds, a \in ResAmounts}

\* List<AttackProposal> or List<HealProposal> for n actors: one list of pairs
\* of pairSet per actor, at most m pairs in all
RECURSIVE pairProposals(_, _, _)
pairProposals(n, pairSet, m) ==
    IF n = 0 THEN {<<>>}
    ELSE UNION {{<<p>> \o rest : p \in [1..k -> pairSet],
                                 rest \in pairProposals(n - 1, pairSet, m - k)} : k \in 0..m}

\* List<MoveProposal>: each actor proposes nothing or itself at a position
moveProposals(as) ==
    {[i \in 1..Len(as) |-> IF pos[i] = <<>> THEN <<>> ELSE <<setActorPosition(as[i], pos[i][1])>>] :
        pos \in [1..Len(as) -> {<<>>} \cup {<<q>> : q \in ResPositions}]}

\* List<SpawnProposal>: the actors of spawning propose a copy of remyWithSpoon
\* at (0, 0) (copyNewActor, called in the order of the list)
spawnProposals(as, spawning, idv) ==
    [i \in 1..Len(as) |->
        IF i \in spawning
        THEN <<copyNewActor(setActorPosition(remyWithSpoon, createPosition(0, 0)),
                            idv + Cardinality({j \in spawning : j < i}))>>
        ELSE <<>>]

InitRes ==
    /\ world = buildWorld(ResSize)
    /\ actors \in ResRegistries
    /\ id_value = 3
    /\ cursor = 0
    /\ tick = 0
    /\ lastPhase = "none"
    /\ phaseIn = <<>>
    /\ proposals = <<>>
    /\ usedIds = {}
    /\ winner = "UNSET"
    /\ call = NoCall
    /\ result = <<>>

\* nothing has been applied yet
Fresh == lastPhase = "none" /\ winner = "UNSET"

\* aPhase.resolver(aWorld, actors, props)
Resolve(funcName, props, idv) ==
    /\ actors' = resolver(funcName, world, actors, props)[2]
    /\ world' = resolver(funcName, world, actors, props)[1]
    /\ proposals' = props
    /\ phaseIn' = actors
    /\ lastPhase' = funcName
    /\ id_value' = idv
    /\ usedIds' = usedIds \cup ActorIds(actors)
    /\ UNCHANGED <<cursor, tick, winner, call, result>>

ResolveMove ==
    /\ Fresh
    /\ \E props \in moveProposals(actors) : Resolve("move", props, id_value)

ResolveAttack ==
    /\ Fresh
    /\ \E props \in pairProposals(Len(actors), AttackPairs, MaxPairs) : Resolve("attack", props, id_value)

ResolveSpawn ==
    /\ Fresh
    /\ \E spawning \in SUBSET (1..Len(actors)) :
           Resolve("spawn", spawnProposals(actors, spawning, id_value), id_value + Cardinality(spawning))

ResolveHeal ==
    /\ Fresh
    /\ \E props \in pairProposals(Len(actors), HealPairs, MaxPairs) : Resolve("heal", props, id_value)

\* gameIsOver(world, actors), once
CallGameIsOver ==
    /\ Fresh
    /\ winner' = gameIsOver(world, actors)
    /\ UNCHANGED <<world, actors, id_value, cursor, tick, lastPhase, phaseIn, proposals, usedIds,
                   call, result>>

NextRes == ResolveMove \/ ResolveAttack \/ ResolveSpawn \/ ResolveHeal \/ CallGameIsOver

SpecRes == InitRes /\ [][NextRes]_vars

-----------------------------------------------------------------------------
(* pathfinding and getNextEnemyPos, each called once on a small world: an enemy
   (the mover), up to MaxWalls walls and possibly a goal *)

\* walls of a registry
MaxWalls == 2

PathSize == createPosition(2, 2)

\* the positions of the vertexes of a world, in the order of its graph
worldPositions(w) == [i \in 1..Len(w.graph.vertexes) |-> w.graph.vertexes[i].pos]

\* where the goal can be
PathGoals == {createPosition(2, 2), createPosition(2, 0), createPosition(1, 1)}

\* copyNewActor of the template at each position of the list, like initializeActors
placeActors(template, positions, idv) ==
    [i \in 1..Len(positions) |-> copyNewActor(setActorPosition(template, positions[i]), idv + i - 1)]

InitPath ==
    /\ world = buildWorld(PathSize)
    /\ \E m \in 1..Len(worldPositions(world)),
          walls \in {ws \in SUBSET (1..Len(worldPositions(world))) : Cardinality(ws) <= MaxWalls},
          goals \in {<<>>} \cup {<<g>> : g \in PathGoals} :
          LET wallAt == SelectSeq(worldPositions(world),
                                  LAMBDA q : \E i \in walls : worldPositions(world)[i] = q)
          IN  actors = placeActors(remyWithSpoon, <<worldPositions(world)[m]>>, 0)
                           \o placeActors(marmite, wallAt, 1)
                           \o placeActors(linguini, goals, 1 + Len(wallAt))
    /\ id_value = Len(actors)
    /\ cursor = 0
    /\ tick = 0
    /\ lastPhase = "none"
    /\ phaseIn = <<>>
    /\ proposals = <<>>
    /\ usedIds = {}
    /\ winner = "UNSET"
    /\ call = NoCall
    /\ result = <<>>

\* pathfinding(src, dst, world.graph, actors) from the mover's position
CallPathfinding ==
    /\ call = NoCall
    /\ \E i \in 1..Len(worldPositions(world)) :
          /\ call' = [fn |-> "pathfinding", src |-> actors[1].position, dst |-> worldPositions(world)[i]]
          /\ result' = pathfinding(actors[1].position, worldPositions(world)[i], world.graph, actors)
    /\ UNCHANGED <<world, actors, id_value, cursor, tick, lastPhase, phaseIn, proposals, usedIds, winner>>

\* getNextEnemyPos(mover, actors, world)
CallGetNextEnemyPos ==
    /\ call = NoCall
    /\ call' = [fn |-> "getNextEnemyPos", actor |-> actors[1]]
    /\ result' = getNextEnemyPos(actors[1], actors, world)
    /\ UNCHANGED <<world, actors, id_value, cursor, tick, lastPhase, phaseIn, proposals, usedIds, winner>>

NextPath == CallPathfinding \/ CallGetNextEnemyPos

SpecPath == InitPath /\ [][NextPath]_vars

-----------------------------------------------------------------------------
(* buildWorld called once with a small size, then isInWorld or one of the two
   getVertexByPos called once on the world it returned, with a position in or
   around it. *)

\* largest side of a size given to buildWorld
MaxSide == 2

WorldSizes == {createPosition(x, y) : x \in 0..MaxSide, y \in 0..MaxSide}

\* positions asked about: the rectangle of the largest world and one line
\* around it
ProbePositions == {createPosition(x, y) : x \in -1..(MaxSide + 1), y \in -1..(MaxSide + 1)}

\* no world is built yet
InitWorld ==
    /\ world = <<>>
    /\ actors = <<>>
    /\ id_value = 0
    /\ cursor = 0
    /\ tick = 0
    /\ lastPhase = "none"
    /\ phaseIn = <<>>
    /\ proposals = <<>>
    /\ usedIds = {}
    /\ winner = "UNSET"
    /\ call = NoCall
    /\ result = <<>>

\* world = buildWorld(size)
CallBuildWorld ==
    /\ call = NoCall
    /\ \E size \in WorldSizes :
          /\ call' = [fn |-> "buildWorld", size |-> size]
          /\ world' = buildWorld(size)
          /\ result' = buildWorld(size)
    /\ UNCHANGED <<actors, id_value, cursor, tick, lastPhase, phaseIn, proposals, usedIds, winner>>

\* isInWorld(world, pos)
CallIsInWorld ==
    /\ call.fn = "buildWorld"
    /\ \E pos \in ProbePositions :
          /\ call' = [fn |-> "isInWorld", pos |-> pos]
          /\ result' = isInWorld(world, pos)
    /\ UNCHANGED <<world, actors, id_value, cursor, tick, lastPhase, phaseIn, proposals, usedIds, winner>>

\* the lists of vertexes a lookup is given: those of the world, or none
LookupLists == {world.graph.vertexes, <<>>}

\* getVertexByPos(vertexes, pos) of common/vertex.ts
CallGetVertexByPos ==
    /\ call.fn = "buildWorld"
    /\ \E pos \in ProbePositions, vertexes \in LookupLists :
          /\ call' = [fn |-> "vertex.getVertexByPos", vertexes |-> vertexes, pos |-> pos]
          /\ result' = getVertexByPos(vertexes, pos)
    /\ UNCHANGED <<world, actors, id_value, cursor, tick, lastPhase, phaseIn, proposals, usedIds, winner>>

\* getVertexByPos(vertexes, pos) of world/world.ts
CallWorldGetVertexByPos ==
    /\ call.fn = "buildWorld"
    /\ \E pos \in ProbePositions, vertexes \in LookupLists :
          /\ call' = [fn |-> "world.getVertexByPos", vertexes |-> vertexes, pos |-> pos]
          /\ result' = worldGetVertexByPos(vertexes, pos)
    /\ UNCHANGED <<world, actors, id_value, cursor, tick, lastPhase, phaseIn, proposals, usedIds, winner>>

NextWorld == CallBuildWorld \/ CallIsInWorld \/ CallGetVertexByPos \/ CallWorldGetVertexByPos

SpecWorld == InitWorld /\ [][NextWorld]_vars

-----------------------------------------------------------------------------
(* One search of pathfinding followed call by call: `result` holds the lists
   given to the next call of pathfindingRec, then the path returned, and the
   number of calls of pathfindingRec made so far. *)

SearchFrom(starts) ==
    /\ world = buildWorld(PathSize)
    /\ \E m \in starts,
          walls \in {ws \in SUBSET (1..Len(worldPositions(world))) : Cardinality(ws) <= MaxWalls} :
          LET wallAt == SelectSeq(worldPositions(world),
                                  LAMBDA q : \E i \in walls : worldPositions(world)[i] = q)
          IN  actors = placeActors(remyWithSpoon, <<worldPositions(world)[m]>>, 0)
                           \o placeActors(marmite, wallAt, 1)
    /\ id_value = Len(actors)
    /\ cursor = 0
    /\ tick = 0
    /\ lastPhase = "none"
    /\ phaseIn = <<>>
    /\ proposals = <<>>
    /\ usedIds = {}
    /\ winner = "UNSET"
    /\ call = NoCall
    /\ result = <<>>

\* the enemy stands on any cell
InitSearch == SearchFrom(1..Len(worldPositions(buildWorld(PathSize))))

\* the enemy stands in the corner (2, 2)
InitSearchFair == SearchFrom({1})

\* pathfinding(src, dst, G, actors) up to its call of pathfindingRec
StartPathfinding ==
    /\ call = NoCall
    /\ \E i \in 1..Len(worldPositions(world)) :
          LET src == actors[1].position
              dst == worldPositions(world)[i]
          IN  /\ call' = [fn |-> "pathfindingRec", src |-> src, dst |-> dst]
              /\ result' = [openList   |-> cons(makeNode(<<>>, getVertexByPos(world.graph.vertexes, src), dst), <<>>),
                            closedList |-> <<>>, done |-> FALSE, path |-> <<>>, calls |-> 0]
    /\ UNCHANGED <<world, actors, id_value, cursor, tick, lastPhase, phaseIn, proposals, usedIds, winner>>

\* one call of pathfindingRec
PathfindingRecCall ==
    /\ call.fn = "pathfindingRec"
    /\ ~result.done
    /\ result' = [pathfindingStep(result, call.dst, world.graph, actors)
                      EXCEPT !.calls = result.calls + 1]
    /\ UNCHANGED <<world, actors, id_value, cursor, tick, lastPhase, phaseIn, proposals, usedIds, winner, call>>

NextSearch == StartPathfinding \/ PathfindingRecCall

SpecSearch == InitSearch /\ [][NextSearch]_vars

\* a call of pathfindingRec that does not return makes the next call
\* (`return pathfindingRec(...)`)
SpecSearchFair == InitSearchFair /\ [][NextSearch]_vars /\ WF_vars(PathfindingRecCall)

-----------------------------------------------------------------------------
(* updateNodeInList called once on a small open list and a candidate node,
   extractClosestNode called once on a small open list. *)

\* largest number of nodes of an open list
MaxNodes == 3

\* the vertexes of the nodes of an open list, and one that is in no list
NodeCells == {createPosition(x, 0) : x \in 0..(MaxNodes - 1)}

AbsentCell == createPosition(0, 1)

NodeDistances == {1, 2, 3}

\* a node of an open list: found from a parent, at some distance, in a search
\* for (0, 1)
OpenNode(pos, distance) ==
    [parent   |-> <<makeNode(<<>>, createVertex(createPosition(1, 1), <<>>), createPosition(0, 0))>>,
     vertex   |-> createVertex(pos, <<>>),
     distance |-> distance,
     score    |-> [g |-> distance, h2 |-> positionDistance2(pos, createPosition(0, 1))]]

\* a candidate: found from the root itself
CandidateNode(pos, distance) == [OpenNode(pos, distance) EXCEPT !.parent = <<>>]

\* open lists: at most one node per vertex, in any order
OpenLists ==
    UNION {{[k \in 1..n |-> OpenNode(c[k][1], c[k][2])] :
               c \in {f \in [1..n -> NodeCells \X NodeDistances] :
                          \A i, j \in 1..n : i # j => f[i][1] # f[j][1]}} : n \in 0..MaxNodes}

InitNodes ==
    /\ world = <<>>
    /\ actors = <<>>
    /\ id_value = 0
    /\ cursor = 0
    /\ tick = 0
    /\ lastPhase = "none"
    /\ phaseIn = <<>>
    /\ proposals = <<>>
    /\ usedIds = {}
    /\ winner = "UNSET"
    /\ call = NoCall
    /\ result = <<>>

\* updateNodeInList(nodes, node)
CallUpdateNodeInList ==
    /\ call = NoCall
    /\ \E nodes \in OpenLists, pos \in NodeCells \cup {AbsentCell}, distance \in NodeDistances :
          /\ call' = [fn |-> "updateNodeInList", nodes |-> nodes, node |-> CandidateNode(pos, distance)]
          /\ result' = updateNodeInList(nodes, CandidateNode(pos, distance))
    /\ UNCHANGED <<world, actors, id_value, cursor, tick, lastPhase, phaseIn, proposals, usedIds, winner>>

\* extractClosestNode(nodes)
CallExtractClosestNode ==
    /\ call = NoCall
    /\ \E nodes \in OpenLists \ {<<>>} :
          /\ call' = [fn |-> "extractClosestNode", nodes |-> nodes]
          /\ result' = extractClosestNode(nodes)
    /\ UNCHANGED <<world, actors, id_value, cursor, tick, lastPhase, phaseIn, proposals, usedIds, winner>>

NextNodes == CallUpdateNodeInList \/ CallExtractClosestNode

SpecNodes == InitNodes /\ [][NextNodes]_vars

-----------------------------------------------------------------------------
(* The operations of actors.ts on a registry, each called once on a small
   registry whose actors are of any type and stand on a few cells. *)

\* largest number of actors of a registry
MaxActors == 2

\* cells at distances 1, sqrt(2), 2 and sqrt(5) of each other
RegPositions ==
    {createPosition(0, 0), createPosition(1, 0), createPosition(0, 1), createPosition(2, 0)}

RegActor(id, type, pos) ==
    [id |-> id, position |-> pos, type |-> type, name |-> "Actor", health |-> 1, maxHealth |-> 1]

\* the i-th actor of a registry has the id 2 * (i - 1): ids grow along the
\* list and the odd ids are those of no actor
RegRegistries ==
    UNION {{[i \in 1..n |-> RegActor(2 * (i - 1), k[i][1], k[i][2])] :
               k \in [1..n -> ActorType \X RegPositions]} : n \in 0..MaxActors}

\* ids given to replaceActor and removeActor
RegIds == {0, 1, 2}

\* the actors given to chooseGoal and getAllActorsInRange: those of the
\* registry and an enemy of id 1, which is not in it, on any cell
RegProbes == {actors[i] : i \in DOMAIN actors} \cup {RegActor(1, "ENEMY", q) : q \in RegPositions}

RegRanges == {0, 1, 2}

InitReg ==
    /\ world = buildWorld(createPosition(2, 1))
    /\ actors \in RegRegistries
    /\ id_value = 2 * MaxActors
    /\ cursor = 0
    /\ tick = 0
    /\ lastPhase = "none"
    /\ phaseIn = <<>>
    /\ proposals = <<>>
    /\ usedIds = {}
    /\ winner = "UNSET"
    /\ call = NoCall
    /\ result = <<>>

\* isWalkableByEnemy(actors, pos)
CallIsWalkableByEnemy ==
    /\ call = NoCall
    /\ \E pos \in RegPositions :
          /\ call' = [fn |-> "isWalkableByEnemy", pos |-> pos]
          /\ result' = isWalkableByEnemy(actors, pos)
    /\ UNCHANGED <<world, actors, id_value, cursor, tick, lastPhase, phaseIn, proposals, usedIds, winner>>

\* replaceActor(actors, newActor), newActor a wounded tower on (2, 0)
CallReplaceActor ==
    /\ call = NoCall
    /\ \E id \in RegIds :
          LET newActor == setLifePoint(RegActor(id, "TOWER", createPosition(2, 0)), 0)
          IN  /\ call' = [fn |-> "replaceActor", newActor |-> newActor]
              /\ result' = replaceActor(actors, newActor)
    /\ UNCHANGED <<world, actors, id_value, cursor, tick, lastPhase, phaseIn, proposals, usedIds, winner>>

\* removeActor(actors, id)
CallRemoveActor ==
    /\ call = NoCall
    /\ \E id \in RegIds :
          /\ call' = [fn |-> "removeActor", id |-> id]
          /\ result' = removeActor(actors, id)
    /\ UNCHANGED <<world, actors, id_value, cursor, tick, lastPhase, phaseIn, proposals, usedIds, winner>>

\* chooseGoal(anActor, actors)
CallChooseGoal ==
    /\ call = NoCall
    /\ \E anActor \in RegProbes :
          /\ call' = [fn |-> "chooseGoal", actor |-> anActor]
          /\ result' = chooseGoal(anActor, actors)
    /\ UNCHANGED <<world, actors, id_value, cursor, tick, lastPhase, phaseIn, proposals, usedIds, winner>>

\* getAllActorsInRange(actors, actor, range)
CallGetAllActorsInRange ==
    /\ call = NoCall
    /\ \E actor \in RegProbes, range \in RegRanges :
          /\ call' = [fn |-> "getAllActorsInRange", actor |-> actor, range |-> range]
          /\ result' = getAllActorsInRange(actors, actor, range)
    /\ UNCHANGED <<world, actors, id_value, cursor, tick, lastPhase, phaseIn, proposals, usedIds, winner>>

NextReg ==
    \/ CallIsWalkableByEnemy
    \/ CallReplaceActor
    \/ CallRemoveActor
    \/ CallChooseGoal
    \/ CallGetAllActorsInRange

SpecReg == InitReg /\ [][NextReg]_vars

-----------------------------------------------------------------------------
(* Properties of the game loop *)

\* calls of the callback made in the current tick, once one has been made
CallsInTick == IF cursor = 0 THEN Len(Phases) ELSE Len(Phases) - cursor

\* C1: every tick applies the phases in the order move, attack, spawn, heal:
\* the k-th call of the callback in a tick runs the k-th phase of the list.
C1_PhasesInListOrder ==
    lastPhase # "none" => lastPhase = Phases[CallsInTick]

\* C11: a tick run twice from the same world and registry, with the same
\* random choices, returns the same registry: the registries a tick can return
\* from the current registry are the same when it is run again after a first
\* run (id_value being then what the first run left).
C11_TickDeterministic ==
    cursor = 0 =>
        LET first == tickOutcomes(Len(Phases), world, {[actors |-> actors, idv |-> id_value]})
        IN  \A o \in first :
                {r.actors : r \in tickOutcomes(Len(Phases), world, {[actors |-> actors, idv |-> o.idv]})}
                    = {r.actors : r \in first}

\* C2: within one phase every actor's proposal is one its behaviour returns
\* on the registry the phase received, whatever the other proposals of the
\* phase do to the registry.
C2_ProposalsFromPhaseInput ==
    lastPhase # "none" =>
        /\ Len(proposals) = Len(phaseIn)
        /\ \A i \in DOMAIN phaseIn :
              proposals[i] \in actorAction(lastPhase, phaseIn[i], world, phaseIn,
                                           IF lastPhase = "spawn" /\ proposals[i] # <<>>
                                           THEN proposals[i][1].id ELSE 0)

\* an attack phase in which two actors aimed at the same target, the proposal
\* resolved first removed it, and the other still names it
C2_Witness ==
    /\ lastPhase = "attack"
    /\ \E i, j \in DOMAIN proposals :
          /\ i < j
          /\ proposals[i] # <<>> /\ proposals[j] # <<>>
          /\ proposals[i][1].id = proposals[j][1].id
          /\ getActorById(phaseIn, proposals[j][1].id) # <<>>
          /\ getActorById(phaseIn, proposals[j][1].id)[1].health <= proposals[j][1].damage
          /\ getActorById(actors, proposals[i][1].id) = <<>>

C10_UniqueIds ==
    /\ \A i, j \in DOMAIN actors : i # j => actors[i].id # actors[j].id
    /\ \A i \in DOMAIN actors : actors[i].id \in usedIds => actors[i].id \in ActorIds(phaseIn)

\* a spawn phase that added an actor
C10_Witness ==
    /\ lastPhase = "spawn"
    /\ Len(actors) = Len(phaseIn) + 1
    /\ actors[Len(actors)].id \notin usedIds

-----------------------------------------------------------------------------
(* Properties of the resolvers and of gameIsOver *)

\* the places <<i, k>> of the pairs of the proposals of an attack or heal phase
PairIndexes == UNION {{<<i, k>> : k \in DOMAIN proposals[i]} : i \in DOMAIN proposals}

PairAt(ix) == proposals[ix[1]][ix[2]]

RECURSIVE SumOf(_, _)
SumOf(S, f) ==
    IF S = {} THEN 0
    ELSE LET x == CHOOSE y \in S : TRUE IN f[x] + SumOf(S \ {x}, f)

\* the damage of all the pairs of the phase that name id
TotalDamage(id) ==
    LET S == {ix \in PairIndexes : PairAt(ix).id = id}
    IN  SumOf(S, [ix \in S |-> PairAt(ix).damage])

\* the heal of all the pairs of the phase that name id
TotalHeal(id) ==
    LET S == {ix \in PairIndexes : PairAt(ix).id = id}
    IN  SumOf(S, [ix \in S |-> PairAt(ix).heal])

Without(l, k) == SubSeq(l, 1, k - 1) \o SubSeq(l, k + 1, Len(l))

Min(a, b) == IF a <= b THEN a ELSE b

\* C3: an attack phase of a single pair (id, damage) on a target present with
\* health h: damage >= h removes the target and nothing else changes;
\* damage < h leaves it in place with health h - damage, all else unchanged.
C3_SingleAttack ==
    (lastPhase = "attack" /\ Cardinality(PairIndexes) = 1) =>
        LET pr == PairAt(CHOOSE ix \in PairIndexes : TRUE)
        IN  \A k \in DOMAIN phaseIn :
                phaseIn[k].id = pr.id =>
                    IF pr.damage >= phaseIn[k].health
                    THEN actors = Without(phaseIn, k)
                    ELSE actors = [phaseIn EXCEPT ![k].health = phaseIn[k].health - pr.damage]

\* a single pair took health from its target, next to another actor
C3_Witness ==
    /\ lastPhase = "attack"
    /\ Cardinality(PairIndexes) = 1
    /\ Len(phaseIn) = 2
    /\ \E k \in DOMAIN phaseIn :
          LET pr == PairAt(CHOOSE ix \in PairIndexes : TRUE)
          IN  /\ phaseIn[k].id = pr.id
              /\ pr.damage >= 1
              /\ pr.damage < phaseIn[k].health
              /\ actors[k].health = phaseIn[k].health - pr.damage

\* C4: the pairs of an attack phase (damage >= 0) compose: an actor whose pairs add up to
\* its health or more is removed, any other actor keeps its place with its
\* health less that sum, and a pair that names no actor of the registry (or
\* one already removed) changes nothing.
C4_AttacksCompose ==
    (lastPhase = "attack" /\ \A ix \in PairIndexes : PairAt(ix).damage >= 0) =>
        actors = SelectSeq([k \in DOMAIN phaseIn |->
                               [phaseIn[k] EXCEPT !.health = @ - TotalDamage(phaseIn[k].id)]],
                           LAMBDA a : a.health >= 1)

\* two pairs on one target, neither enough alone, removed it together
C4_Witness ==
    /\ lastPhase = "attack"
    /\ \A ix \in PairIndexes : PairAt(ix).damage >= 1
    /\ \E k \in DOMAIN phaseIn :
          /\ Cardinality({ix \in PairIndexes : PairAt(ix).id = phaseIn[k].id}) = 2
          /\ \A ix \in PairIndexes : PairAt(ix).damage < phaseIn[k].health
          /\ phaseIn[k].id \notin ActorIds(actors)

\* C5: a heal phase leaves every actor in place with health
\* min(h + amount, maxHealth), amount being the heal of the pairs that name
\* it; a pair that names no actor changes nothing.
C5_HealClamped ==
    (lastPhase = "heal" /\ \A ix \in PairIndexes : PairAt(ix).heal >= 0) =>
        actors = [k \in DOMAIN phaseIn |->
                     [phaseIn[k] EXCEPT !.health = Min(@ + TotalHeal(phaseIn[k].id), phaseIn[k].maxHealth)]]

\* a heal beyond maxHealth stopped at maxHealth, next to a pair for an id
\* that is not in the registry
C5_Witness ==
    /\ lastPhase = "heal"
    /\ \A ix \in PairIndexes : PairAt(ix).heal >= 0
    /\ \E ix \in PairIndexes : PairAt(ix).id \notin ActorIds(phaseIn)
    /\ \E k \in DOMAIN phaseIn :
          /\ phaseIn[k].health < phaseIn[k].maxHealth
          /\ phaseIn[k].health + TotalHeal(phaseIn[k].id) > phaseIn[k].maxHealth
          /\ actors[k].health = phaseIn[k].maxHealth

\* C6: after a move phase every actor is the one it proposed when the
\* proposal lies inside the world, and is unchanged when it proposed nothing
\* or a position outside the world.
C6_MoveInBounds ==
    lastPhase = "move" =>
        /\ Len(actors) = Len(phaseIn)
        /\ \A k \in DOMAIN phaseIn :
              actors[k] = IF /\ proposals[k] # <<>>
                             /\ proposals[k][1].position.x \in 0..world.size.x
                             /\ proposals[k][1].position.y \in 0..world.size.y
                          THEN proposals[k][1]
                          ELSE phaseIn[k]

\* one actor proposed a position outside the world and stayed, another moved
C6_Witness ==
    /\ lastPhase = "move"
    /\ \E k, m \in DOMAIN phaseIn :
          /\ proposals[k] # <<>>
          /\ proposals[k][1].position.x > world.size.x
          /\ actors[k] = phaseIn[k]
          /\ proposals[m] # <<>>
          /\ actors[m].position # phaseIn[m].position

\* C7: after a spawn phase with at least one proposal naming an actor the
\* registry is the one the phase received plus exactly one of the proposed
\* actors at the end; with none it is the one the phase received.
C7_SpawnOnSnapshot ==
    lastPhase = "spawn" =>
        LET naming == {i \in DOMAIN proposals : proposals[i] # <<>>}
        IN  IF naming = {} THEN actors = phaseIn
            ELSE /\ Len(actors) = Len(phaseIn) + 1
                 /\ SubSeq(actors, 1, Len(phaseIn)) = phaseIn
                 /\ \E i \in naming : actors[Len(actors)] = proposals[i][1]

\* two proposals named an actor and one actor was added
C7_Witness ==
    /\ lastPhase = "spawn"
    /\ Cardinality({i \in DOMAIN proposals : proposals[i] # <<>>}) = 2
    /\ Len(actors) = Len(phaseIn) + 1

\* C8: gameIsOver is TOWER when the registry has no ENEMY and no SPAWNER,
\* else ENEMY when it has no GOAL, else NONE.
C8_GameIsOver ==
    (winner # "UNSET" /\ lastPhase = "none") =>
        winner = IF \A k \in DOMAIN actors : actors[k].type \notin {"ENEMY", "SPAWNER"} THEN "TOWER"
                 ELSE IF \A k \in DOMAIN actors : actors[k].type # "GOAL" THEN "ENEMY"
                 ELSE "NONE"

\* TOWER for a registry that holds actors but no enemy, spawner or goal
C8_Witness ==
    /\ winner = "TOWER"
    /\ lastPhase = "none"
    /\ actors # <<>>
    /\ \A k \in DOMAIN actors : actors[k].type # "GOAL"

-----------------------------------------------------------------------------
(* Properties of pathfinding and getNextEnemyPos *)

GridPositions == {createPosition(x, y) : x \in 0..world.size.x, y \in 0..world.size.y}

\* an actor other than an enemy or a goal stands at pos
Blocked(pos) ==
    \E k \in DOMAIN actors : actors[k].position = pos /\ actors[k].type \notin {"ENEMY", "GOAL"}

Abs(n) == IF n < 0 THEN -n ELSE n

Manhattan(p, q) == Abs(p.x - q.x) + Abs(p.y - q.y)

\* the positions at most k grid edges away from src through positions that are
\* not blocked (src itself may be)
RECURSIVE ReachedWithin(_, _)
ReachedWithin(src, k) ==
    IF k = 0 THEN {src}
    ELSE LET prev == ReachedWithin(src, k - 1)
         IN  prev \cup {q \in GridPositions : ~Blocked(q) /\ \E p \in prev : Manhattan(p, q) = 1}

Reachable(src, dst) == dst \in ReachedWithin(src, Cardinality(GridPositions))

\* the least number of grid edges from src to dst, for dst reachable
Hops(src, dst) ==
    CHOOSE k \in 0..Cardinality(GridPositions) :
        /\ dst \in ReachedWithin(src, k)
        /\ \A j \in 0..(k - 1) : dst \notin ReachedWithin(src, j)

\* C12: a non-empty path returned by pathfinding starts at src, ends at dst,
\* joins cardinal neighbours, and holds no blocked vertex other than src.
C12_PathIsWalk ==
    (call.fn = "pathfinding" /\ result # <<>>) =>
        /\ result[1].pos = call.src
        /\ result[Len(result)].pos = call.dst
        /\ \A i \in 1..Len(result) : result[i].pos \in GridPositions
        /\ \A i \in 1..(Len(result) - 1) : Manhattan(result[i].pos, result[i + 1].pos) = 1
        /\ \A i \in 2..Len(result) : ~Blocked(result[i].pos)

\* the path from (0, 0) to (2, 0) with a wall at (1, 0) goes round the wall
C12_Witness ==
    /\ call.fn = "pathfinding"
    /\ call.src = createPosition(0, 0)
    /\ call.dst = createPosition(2, 0)
    /\ Blocked(createPosition(1, 0))
    /\ Len(result) = 5
    /\ \A i \in 1..Len(result) : result[i].pos # createPosition(1, 0)

\* C13: pathfinding returns the empty path exactly when dst cannot be reached
\* from src through positions that are not blocked; the search started with
\* an empty open list returns the empty path.
C13_EmptyIffUnreachable ==
    call.fn = "pathfinding" =>
        /\ (result = <<>>) <=> ~Reachable(call.src, call.dst)
        /\ pathfindingRec(<<>>, <<>>, call.dst, world.graph, actors) = <<>>

\* a free destination walled off from the source has no path
C13_Witness ==
    /\ call.fn = "pathfinding"
    /\ result = <<>>
    /\ ~Blocked(call.dst)
    /\ ~Blocked(call.src)

\* C14: a non-empty path returned by pathfinding has the least number of
\* grid edges of all the walks from src to dst through free positions.
C14_PathIsShortest ==
    (call.fn = "pathfinding" /\ result # <<>>) =>
        Len(result) - 1 = Hops(call.src, call.dst)

\* a shortest path that is longer than the distance on the open grid
C14_Witness ==
    /\ call.fn = "pathfinding"
    /\ result # <<>>
    /\ Len(result) - 1 = Hops(call.src, call.dst)
    /\ Len(result) - 1 > Manhattan(call.src, call.dst)

\* C15: pathfinding(p, p, G, actors) is the path made of the vertex at p.
C15_PathToSelf ==
    (call.fn = "pathfinding" /\ call.src = call.dst) =>
        /\ Len(result) = 1
        /\ result[1].pos = call.src
        /\ \E i \in DOMAIN world.graph.vertexes : world.graph.vertexes[i] = result[1]

\* the path from a position to itself, a wall standing on it
C15_Witness ==
    /\ call.fn = "pathfinding"
    /\ call.src = call.dst
    /\ Blocked(call.src)
    /\ Len(result) = 1

\* C16: the mover holds its position when the registry has no goal, when the
\* goal cannot be reached, and when the goal is on the mover's cell.
C16_MoverHolds ==
    call.fn = "getNextEnemyPos" =>
        /\ result \in GridPositions
        /\ (\/ \A k \in DOMAIN actors : actors[k].type # "GOAL"
            \/ \E k \in DOMAIN actors :
                  /\ actors[k].type = "GOAL"
                  /\ \/ ~Reachable(call.actor.position, actors[k].position)
                     \/ actors[k].position = call.actor.position)
           => result = call.actor.position

\* a goal walled off from the mover: the mover stays
C16_Witness ==
    /\ call.fn = "getNextEnemyPos"
    /\ \E k \in DOMAIN actors :
          /\ actors[k].type = "GOAL"
          /\ actors[k].position # call.actor.position
          /\ ~Reachable(call.actor.position, actors[k].position)
    /\ result = call.actor.position

-----------------------------------------------------------------------------
(* Order of application and the world *)

\* the pairs of the proposals of an attack or heal phase, in the order of the
\* lists
RECURSIVE flattenPairs(_)
flattenPairs(props) ==
    IF props = <<>> THEN <<>> ELSE Head(props) \o flattenPairs(Tail(props))

\* the pairs of seq applied to the registry reg one after the other, from the
\* first of seq to the last
RECURSIVE attackInOrder(_, _)
attackInOrder(reg, seq) ==
    IF seq = <<>> THEN reg
    ELSE attackInOrder(attackPair(<<world, reg>>, Head(seq))[2], Tail(seq))

RECURSIVE healInOrder(_, _)
healInOrder(reg, seq) ==
    IF seq = <<>> THEN reg
    ELSE healInOrder(healPair(<<world, reg>>, Head(seq))[2], Tail(seq))

RECURSIVE moveInOrder(_, _)
moveInOrder(reg, seq) ==
    IF seq = <<>> THEN reg
    ELSE moveInOrder(IF Head(seq) # <<>> /\ isInWorld(world, Head(seq)[1].position)
                     THEN replaceActor(reg, Head(seq)[1]) ELSE reg,
                     Tail(seq))

\* C17: the resolvers apply the proposals from the last actor's to the first
\* actor's, and the pairs of an attack or heal proposal from last to first:
\* attack and heal give the registry obtained by applying the pairs in that
\* order, and the actor a spawn phase adds is the one the first proposing actor
\* proposed (applied last, it replaces the others).
C17_ReversedOrder ==
    /\ lastPhase = "move" => actors = moveInOrder(phaseIn, reverseList(proposals))
    /\ lastPhase = "attack" => actors = attackInOrder(phaseIn, reverseList(flattenPairs(proposals)))
    /\ lastPhase = "heal" => actors = healInOrder(phaseIn, reverseList(flattenPairs(proposals)))
    /\ lastPhase = "spawn" =>
          LET naming == {i \in DOMAIN proposals : proposals[i] # <<>>}
          IN  naming # {} =>
                  actors[Len(actors)] = proposals[CHOOSE i \in naming : \A j \in naming : i <= j][1]

\* a heal phase whose pairs, applied from first to last, give another registry
C17_Witness ==
    /\ lastPhase = "heal"
    /\ Len(flattenPairs(proposals)) = 2
    /\ actors # healInOrder(phaseIn, flattenPairs(proposals))

\* C18: a resolver returns the world it was given: after any phase the world
\* is the one that was built.
C18_WorldUnchanged ==
    lastPhase # "none" => world = buildWorld(ResSize)

\* a move phase that changed the registry
C18_Witness ==
    /\ lastPhase = "move"
    /\ actors # phaseIn
    /\ world.size = ResSize

-----------------------------------------------------------------------------
(* Properties of buildWorld and isInWorld *)

\* C19: isInWorld(world, p) is true exactly when 0 <= p.x <= size.x and
\* 0 <= p.y <= size.y, both bounds included.
C19_IsInWorldInclusive ==
    call.fn = "isInWorld" =>
        result = (/\ 0 <= call.pos.x /\ call.pos.x <= world.size.x
                  /\ 0 <= call.pos.y /\ call.pos.y <= world.size.y)

\* the corner p = size of a world of more than one cell is inside
C19_Witness ==
    /\ call.fn = "isInWorld"
    /\ world.size.x >= 1 /\ world.size.y >= 1
    /\ call.pos = world.size
    /\ result = TRUE

\* the positions of the vertexes the vertex v has an edge to
EdgeTargets(v) == {v.adj[k].vertex.pos : k \in DOMAIN v.adj}

\* C20: buildWorld(size) has exactly one vertex per integer coordinate of
\* [0, size.x] x [0, size.y] and no other; a vertex has an edge to exactly its
\* cardinal neighbours inside the bounds, once each; every edge has weight 1;
\* u has an edge to v iff v has an edge to u.
C20_FullGrid ==
    call.fn = "buildWorld" =>
        LET vs   == result.graph.vertexes
            size == call.size
            rect == {createPosition(x, y) : x \in 0..size.x, y \in 0..size.y}
        IN  /\ result.size = size
            /\ \A q \in rect : Cardinality({i \in DOMAIN vs : vs[i].pos = q}) = 1
            /\ \A i \in DOMAIN vs : vs[i].pos \in rect
            /\ \A i \in DOMAIN vs :
                  /\ EdgeTargets(vs[i]) = {q \in rect : Manhattan(vs[i].pos, q) = 1}
                  /\ Len(vs[i].adj) = Cardinality(EdgeTargets(vs[i]))
                  /\ \A k \in DOMAIN vs[i].adj : vs[i].adj[k].weight = 1
            /\ \A i, j \in DOMAIN vs :
                  vs[j].pos \in EdgeTargets(vs[i]) <=> vs[i].pos \in EdgeTargets(vs[j])

\* a world of more than one row and more than one column was built, so that
\* every vertex has at least two edges
C20_Witness ==
    /\ call.fn = "buildWorld"
    /\ call.size.x >= 1 /\ call.size.y >= 1
    /\ \E i \in DOMAIN result.graph.vertexes : Len(result.graph.vertexes[i].adj) >= 2

\* C21: the count n of the graph of buildWorld(size) is (size.x + 1) * (size.y + 1),
\* the number of vertexes of the graph.
C21_VertexCount ==
    call.fn = "buildWorld" =>
        /\ result.graph.n = (call.size.x + 1) * (call.size.y + 1)
        /\ result.graph.n = Len(result.graph.vertexes)

\* C22: a lookup of a position that no vertex of the list has raises an error,
\* whichever of the two getVertexByPos is called.
C22_LookupRaises ==
    (/\ call.fn \in {"vertex.getVertexByPos", "world.getVertexByPos"}
     /\ firstVertexAt(call.vertexes, call.pos) = 0)
        => result = VertexNotFound

-----------------------------------------------------------------------------
(* Properties of the registry operations *)

\* C23: isWalkableByEnemy(actors, pos) is true exactly when every actor at pos
\* is an ENEMY or a GOAL (a cell without actor is walkable; one actor of
\* another type blocks the cell, whoever shares it).
C23_WalkableIffEnemiesOrGoals ==
    call.fn = "isWalkableByEnemy" =>
        result = (\A i \in DOMAIN actors :
                      actors[i].position = call.pos => actors[i].type \in {"ENEMY", "GOAL"})

\* a cell shared by an enemy or a goal and an actor of another type is not
\* walkable
C23_Witness ==
    /\ call.fn = "isWalkableByEnemy"
    /\ \E i, j \in DOMAIN actors :
          /\ actors[i].position = call.pos /\ actors[i].type \in {"ENEMY", "GOAL"}
          /\ actors[j].position = call.pos /\ actors[j].type \in {"TOWER", "WALL", "SPAWNER", "UNKNOWN"}
    /\ result = FALSE

C25_NearestGoal ==
    call.fn = "chooseGoal" =>
        LET goals == {i \in DOMAIN actors : actors[i].type = "GOAL"}
        IN  /\ result = <<>> <=> goals = {}
            /\ result # <<>> =>
                  /\ \E i \in goals : result[1] = actors[i]
                  /\ \A i \in goals :
                        actorDistance2(call.actor, result[1]) <= actorDistance2(call.actor, actors[i])

\* of two goals the first of the registry, nearer to the actor, is chosen
C25_Witness ==
    /\ call.fn = "chooseGoal"
    /\ Len(actors) >= 2
    /\ actors[1].type = "GOAL" /\ actors[2].type = "GOAL"
    /\ actorDistance2(call.actor, actors[1]) < actorDistance2(call.actor, actors[2])
    /\ result = <<actors[1]>>

\* C26: getAllActorsInRange(registry, a, R) holds exactly the actors of the
\* registry at Euclidean distance at most R of a whose id is not a's, each
\* once.
C26_InRangeNotSelf ==
    call.fn = "getAllActorsInRange" =>
        LET inRange == {i \in DOMAIN actors :
                           /\ actorDistance2(actors[i], call.actor) <= call.range * call.range
                           /\ actors[i].id # call.actor.id}
        IN  /\ {result[k] : k \in DOMAIN result} = {actors[i] : i \in inRange}
            /\ Len(result) = Cardinality(inRange)

\* asked by an actor of the registry with range 0: the actor sharing its cell
\* is returned, the asking actor is not
C26_Witness ==
    /\ call.fn = "getAllActorsInRange"
    /\ call.range = 0
    /\ Len(actors) >= 2
    /\ call.actor = actors[1]
    /\ actors[2].position = actors[1].position
    /\ result = <<actors[2]>>

-----------------------------------------------------------------------------
(* Properties of the actions of the templates *)

\* C27: after a move phase every ENEMY of the phase's input stands where it
\* stood or on a cardinal neighbour that is walkable by enemies in the input
\* registry; when pathfinding from its position to its nearest GOAL gives a
\* path of two vertexes or more, it stands on the second vertex of the path.
C27_EnemyStep ==
    lastPhase = "move" =>
        \A i \in DOMAIN phaseIn :
            phaseIn[i].type = "ENEMY" =>
                LET new  == getActorById(actors, phaseIn[i].id)
                    goal == chooseGoal(phaseIn[i], phaseIn)
                    path == pathfinding(phaseIn[i].position, goal[1].position, world.graph, phaseIn)
                IN  /\ new # <<>>
                    /\ \/ new[1].position = phaseIn[i].position
                       \/ /\ Manhattan(new[1].position, phaseIn[i].position) = 1
                          /\ isWalkableByEnemy(phaseIn, new[1].position)
                    /\ (goal # <<>> /\ Len(path) >= 2) => new[1].position = path[2].pos

\* an enemy took the first step of a path of three vertexes or more
C27_Witness ==
    /\ lastPhase = "move"
    /\ \E i \in DOMAIN phaseIn :
          /\ phaseIn[i].type = "ENEMY"
          /\ chooseGoal(phaseIn[i], phaseIn) # <<>>
          /\ Len(pathfinding(phaseIn[i].position, chooseGoal(phaseIn[i], phaseIn)[1].position,
                              world.graph, phaseIn)) >= 3
          /\ getActorById(actors, phaseIn[i].id)[1].position # phaseIn[i].position

\* C28: in a spawn phase a SPAWNER proposes an actor exactly when its health in
\* the phase's input registry is divisible by 3; the proposed actor is an ENEMY
\* at (0, 5) with health and maxHealth 200 and an id no actor has had.
C28_SpawnEveryThird ==
    lastPhase = "spawn" =>
        \A i \in DOMAIN phaseIn :
            phaseIn[i].type = "SPAWNER" =>
                /\ proposals[i] # <<>> <=> phaseIn[i].health % 3 = 0
                /\ proposals[i] # <<>> =>
                      /\ proposals[i][1].type = "ENEMY"
                      /\ proposals[i][1].position = createPosition(0, 5)
                      /\ proposals[i][1].health = 200
                      /\ proposals[i][1].maxHealth = 200
                      /\ proposals[i][1].id \notin usedIds

\* the hole, its health divisible by 3, proposed an enemy, which joined the registry
C28_Witness ==
    /\ lastPhase = "spawn"
    /\ \E i \in DOMAIN phaseIn :
          /\ phaseIn[i].type = "SPAWNER"
          /\ phaseIn[i].health % 3 = 0
          /\ proposals[i] # <<>>
          /\ actors = phaseIn \o proposals[i]

-----------------------------------------------------------------------------
(* Properties of the search *)

\* the nodes of a list of the search
NodesOf(nodes) == {nodes[k] : k \in DOMAIN nodes}

\* pos cannot be walked on by an enemy and is not where the search started
BlockedForSearch(pos) == ~isWalkableByEnemy(actors, pos) /\ pos # call.src

\* C29: in a search no vertex that is not walkable by enemies, src apart, is
\* in the open list, is the parent of a node (it was never expanded) or is on
\* the returned path (it was never extracted); such a neighbour of an expanded
\* vertex is in the closed list.
C29_BlockedNeverOpen ==
    call.fn = "pathfindingRec" =>
        LET open   == NodesOf(result.openList)
            closed == NodesOf(result.closedList)
        IN  /\ \A n \in open : ~BlockedForSearch(n.vertex.pos)
            /\ \A n \in open \cup closed :
                  n.parent # <<>> => ~BlockedForSearch(n.parent[1].vertex.pos)
            /\ \A k \in DOMAIN result.path : ~BlockedForSearch(result.path[k].pos)
            /\ \A c \in closed :
                  ~BlockedForSearch(c.vertex.pos) =>
                      \A e \in DOMAIN c.vertex.adj :
                          BlockedForSearch(c.vertex.adj[e].vertex.pos) =>
                              \E b \in closed : b.vertex.pos = c.vertex.adj[e].vertex.pos

\* a wall next to an expanded vertex is in the closed list while the search
\* goes on
C29_Witness ==
    /\ call.fn = "pathfindingRec"
    /\ ~result.done
    /\ result.openList # <<>>
    /\ \E b \in NodesOf(result.closedList) :
          b.parent # <<>> /\ BlockedForSearch(b.vertex.pos)

\* C30: updateNodeInList(nodes, node) raises "Unexpected error" when no node
\* of the list is at node's vertex; otherwise the list keeps its length and
\* its other nodes, and the node at that vertex is replaced by node when
\* node's distance is strictly lower and kept when it is equal or higher.
C30_StrictRelaxation ==
    call.fn = "updateNodeInList" =>
        LET at == {i \in DOMAIN call.nodes : call.nodes[i].vertex.pos = call.node.vertex.pos}
        IN  IF at = {} THEN result = UnexpectedError
            ELSE /\ Len(result) = Len(call.nodes)
                 /\ \A i \in DOMAIN call.nodes :
                       result[i] = IF i \in at /\ call.node.distance < call.nodes[i].distance
                                   THEN call.node ELSE call.nodes[i]

\* a candidate of the distance of the node of the list left the list as it was
C30_Witness ==
    /\ call.fn = "updateNodeInList"
    /\ Len(call.nodes) >= 2
    /\ call.nodes[2].vertex.pos = call.node.vertex.pos
    /\ call.nodes[2].distance = call.node.distance
    /\ result = call.nodes

\* C31: extractClosestNode of a non-empty open list is a node of the list whose
\* score (distance + Euclidean distance to the destination) no node of the
\* list is strictly below.
C31_ClosestIsMinimal ==
    call.fn = "extractClosestNode" =>
        /\ \E k \in DOMAIN call.nodes : call.nodes[k] = result
        /\ \A k \in DOMAIN call.nodes : ~ScoreLess(call.nodes[k].score, result.score)

\* the node extracted is neither the first of the list nor one of the lowest
\* distance
C31_Witness ==
    /\ call.fn = "extractClosestNode"
    /\ Len(call.nodes) >= 2
    /\ result # call.nodes[1]
    /\ \E k \in DOMAIN call.nodes : call.nodes[k].distance < result.distance

\* positions of the nodes of a list are all different
OnePerVertex(nodes) ==
    \A i, j \in DOMAIN nodes : i # j => nodes[i].vertex.pos # nodes[j].vertex.pos

\* what holds of the lists between two calls of pathfindingRec
SearchLists ==
    call.fn = "pathfindingRec" =>
        /\ \A o \in NodesOf(result.openList), c \in NodesOf(result.closedList) :
              o.vertex.pos # c.vertex.pos
        /\ OnePerVertex(result.openList)
        /\ OnePerVertex(result.closedList)
        /\ result.calls <= Len(world.graph.vertexes) + (IF result.done THEN 1 ELSE 0)

\* the search has returned
SearchReturned == call.fn = "pathfindingRec" /\ result.done

\* C32: a search terminates: between two calls of pathfindingRec no vertex is
\* in both lists and each list has at most one node per vertex; the calls that
\* do not return (one extraction and expansion each) are at most as many as
\* the vertexes; every search that was started returns.
C32_SearchTerminates ==
    /\ []SearchLists
    /\ [](call.fn = "pathfindingRec" => <>SearchReturned)

\* a search that returned no path after it had extracted more than one vertex
C32_Witness ==
    /\ call.fn = "pathfindingRec"
    /\ result.done
    /\ result.path = <<>>
    /\ result.calls >= 3

-----------------------------------------------------------------------------
(* Properties of a whole game *)

\* the registry initializeActors builds for the loop of main
InitialActors == initializeActors(buildWorld(WorldSize), 0)

C34_ActorsInWorld ==
    \A i \in DOMAIN actors :
        /\ actors[i].position.x \in 0..world.size.x
        /\ actors[i].position.y \in 0..world.size.y

\* a spawn phase has added an actor, on the border of the world
C34_Witness ==
    /\ lastPhase = "spawn"
    /\ Len(actors) = Len(phaseIn) + 1
    /\ actors[Len(actors)].id \notin ActorIds(phaseIn)
    /\ actors[Len(actors)].position.x = 0

\* C35: in a game started by initializeActors only enemies change position:
\* every TOWER, GOAL, SPAWNER and WALL of the registry is an actor of the
\* initial registry and stands where it stood there.
C35_OnlyEnemiesMove ==
    \A i \in DOMAIN actors :
        actors[i].type # "ENEMY" =>
            \E k \in DOMAIN InitialActors :
                /\ InitialActors[k].id = actors[i].id
                /\ InitialActors[k].type = actors[i].type
                /\ InitialActors[k].position = actors[i].position

\* a move phase has moved an enemy while the hole, the goal and a tower that
\* is next to an enemy are in the registry
C35_Witness ==
    /\ lastPhase = "move"
    /\ \E i \in DOMAIN actors, k \in DOMAIN phaseIn :
          /\ actors[i].type = "ENEMY"
          /\ phaseIn[k].id = actors[i].id
          /\ phaseIn[k].position # actors[i].position
          /\ \E j \in DOMAIN actors :
                actors[j].type = "TOWER" /\ Manhattan(actors[i].position, actors[j].position) = 1
    /\ \E i \in DOMAIN actors : actors[i].type = "SPAWNER" /\ actors[i].health < actors[i].maxHealth
    /\ \E i \in DOMAIN actors : actors[i].type = "GOAL"

\* the walls of the initial registry
InitialWalls == {InitialActors[k] : k \in {j \in DOMAIN InitialActors : InitialActors[j].type = "WALL"}}

\* the ids the proposals of the last phase name: the actor a move proposal
\* replaces, the targets of the pairs of an attack or a heal proposal
TargetedIds ==
    CASE lastPhase = "move" ->
            {proposals[i][1].id : i \in {j \in DOMAIN proposals : proposals[j] # <<>>}}
      [] lastPhase \in {"attack", "heal"} ->
            UNION {{proposals[i][k].id : k \in DOMAIN proposals[i]} : i \in DOMAIN proposals}
      [] OTHER -> {}

\* C36: in a game started by initializeActors no proposal names a WALL, and
\* every WALL of the initial registry is in the registry with its initial
\* position and its 1000 life points.
C36_WallsUntouched ==
    /\ \A wall \in InitialWalls : wall.id \notin TargetedIds
    /\ \A wall \in InitialWalls :
          /\ wall.health = 1000
          /\ \E i \in DOMAIN actors : actors[i] = wall

\* an attack phase in which a tower has hit an enemy and a tower two cells away
\* from a wall, with no enemy in range, has proposed nothing
C36_Witness ==
    /\ lastPhase = "attack"
    /\ \E i \in DOMAIN phaseIn :
          /\ phaseIn[i].type = "TOWER"
          /\ \E wall \in InitialWalls : Manhattan(wall.position, phaseIn[i].position) = 2
          /\ proposals[i] = <<>>
    /\ \E i \in DOMAIN phaseIn :
          /\ phaseIn[i].type = "TOWER"
          /\ proposals[i] # <<>>
          /\ \E j \in DOMAIN phaseIn :
                 phaseIn[j].id = proposals[i][1].id /\ phaseIn[j].type = "ENEMY"

Spawners(as) == {as[i] : i \in {j \in DOMAIN as : as[j].type = "SPAWNER"}}

\* the attack phase of the current tick has run
AttackedThisTick == cursor = 1

\* the loop of main has ended
LoopEnded == winner \in {"TOWER", "ENEMY"}

\* the health of the SPAWNER goes down by 1 in every tick: through the first
\* 19 ticks the hole is in the registry, with 20 life points less one for each
\* attack phase; no proposal but its own attack names it; the registry gains
\* an actor only in a spawn phase that received a SPAWNER
SpawnerCountsDown ==
    /\ tick < hole.health - 1 =>
          \E sp \in Spawners(actors) :
              /\ Spawners(actors) = {sp}
              /\ sp.name = "Hole"
              /\ sp.health = hole.health - tick - (IF AttackedThisTick THEN 1 ELSE 0)
    /\ \A sp \in Spawners(phaseIn) :
          sp.id \in TargetedIds =>
              /\ lastPhase = "attack"
              /\ \A i \in DOMAIN proposals :
                    (\E k \in DOMAIN proposals[i] : proposals[i][k].id = sp.id)
                        => phaseIn[i].id = sp.id /\ proposals[i] = <<[id |-> sp.id, damage |-> 1]>>
    /\ lastPhase # "none" /\ ~(ActorIds(actors) \subseteq ActorIds(phaseIn)) =>
          lastPhase = "spawn" /\ Spawners(phaseIn) # {}

C38_VerdictStays ==
    LoopEnded => gameIsOver(world, actors) # "NONE"

\* the spawn phase of a further tick has added an enemy to the registry of a
\* game the enemies have won
C38_Witness ==
    /\ winner = "ENEMY"
    /\ lastPhase = "spawn"
    /\ \E i \in DOMAIN actors : actors[i].id \notin ActorIds(phaseIn) /\ actors[i].type = "ENEMY"

\* the pairs of the last attack phase, in the order the resolver applies them
AppliedPairs == reverseList(flattenPairs(proposals))

\* the ids of the registry of the last attack phase that are gone once the
\* first k pairs are applied
RemovedAfter(k) ==
    ActorIds(phaseIn) \ ActorIds(attackInOrder(phaseIn, SubSeq(AppliedPairs, 1, k)))

\* C39: an actor a resolver removed stays removed: an id a registry held before
\* and the last phase did not receive is not in the registry; a phase has one
\* proposal for each actor it received, and the move and heal proposals name
\* actors it received; the move, attack and heal resolvers return no id they
\* did not receive, and an id a pair of an attack phase removed is not brought
\* back by the pairs applied after it.
C39_RemovedStaysRemoved ==
    /\ \A id \in usedIds : id \notin ActorIds(phaseIn) => id \notin ActorIds(actors)
    /\ lastPhase # "none" => Len(proposals) = Len(phaseIn)
    /\ lastPhase \in {"move", "heal"} => TargetedIds \subseteq ActorIds(phaseIn)
    /\ lastPhase \in {"move", "attack", "heal"} => ActorIds(actors) \subseteq ActorIds(phaseIn)
    /\ lastPhase = "attack" =>
          \A k \in 0..Len(AppliedPairs) : RemovedAfter(k) \cap ActorIds(actors) = {}

\* an attack phase in which a pair names an actor that a pair applied before
\* it has removed, in a tick after one in which an actor was removed
C39_Witness ==
    /\ lastPhase = "attack"
    /\ \E k \in 1..Len(AppliedPairs) : AppliedPairs[k].id \in RemovedAfter(k - 1)
    /\ \E id \in usedIds : id \notin ActorIds(phaseIn)

\* the lists that hold the elements of seq in another order
Orderings(seq) ==
    {[i \in 1..Len(seq) |-> seq[f[i]]] : f \in Permutations(1..Len(seq))}

\* C40: when no damage and no heal amount is negative, the registry the attack
\* resolver returns and the one the heal resolver returns are the registry
\* obtained by applying the same pairs in any order.
C40_OrderIndependent ==
    /\ lastPhase = "attack" /\ (\A i \in DOMAIN proposals : \A k \in DOMAIN proposals[i] :
                                     proposals[i][k].damage >= 0)
          => \A seq \in Orderings(flattenPairs(proposals)) : attackInOrder(phaseIn, seq) = actors
    /\ lastPhase = "heal" /\ (\A i \in DOMAIN proposals : \A k \in DOMAIN proposals[i] :
                                   proposals[i][k].heal >= 0)
          => \A seq \in Orderings(flattenPairs(proposals)) : healInOrder(phaseIn, seq) = actors

\* an attack phase of two pairs of different damages on the same actor, which
\* their sum removes and neither of them alone
C40_Witness ==
    /\ lastPhase = "attack"
    /\ Len(flattenPairs(proposals)) = 2
    /\ \E i \in DOMAIN phaseIn :
          /\ flattenPairs(proposals)[1].id = phaseIn[i].id
          /\ flattenPairs(proposals)[2].id = phaseIn[i].id
          /\ flattenPairs(proposals)[1].damage \in 1..(phaseIn[i].health - 1)
          /\ flattenPairs(proposals)[2].damage \in 1..(phaseIn[i].health - 1)
          /\ flattenPairs(proposals)[1].damage # flattenPairs(proposals)[2].damage
          /\ phaseIn[i].id \notin ActorIds(actors)

====
